---- MODULE Spec2Model ----
(***************************************************************************)
(* Model of the Cryptopulse signal engine.                                 *)
(*                                                                         *)
(*   Spec      the TradingBotService of the real-time revision             *)
(*             (server/services/tradingBot.ts, latest revision): start,    *)
(*             stop, the setInterval timer, and every await point of       *)
(*             checkSignals / processSignal as a separate step.            *)
(*   SpecEval  the evaluation functions alone (analyzeSignalRealTime       *)
(*             behind the checkSignals data check, and analyzeSignal of    *)
(*             the crossover revision), applied to inputs drawn from       *)
(*             bounded sets in an engine state drawn at Init.              *)
(*                                                                         *)
(* Times are milliseconds.  MACD values are integers in units of 0.001.    *)
(***************************************************************************)
EXTENDS Integers, Sequences, FiniteSets, TLC

\* ------------------------------------------------------------------ bounds
\* number of 30 s clock steps explored
MaxSteps == 5
\* checkSignals executions that may be in flight at once
MaxInFlight == 2
\* signals kept in storage
MaxSignals == 2
\* interval timers that may exist at once, created or being created by a
\* start() that awaits loadConfiguration
MaxTimers == 1

\* --------------------------------------------------- JavaScript values
\* null and NaN, as integers outside every numeric domain of the model
Null == -999999
NaN == -888888

\* !v for a number-or-null value
Falsy(v) == v = Null \/ v = NaN \/ v = 0
\* v || null
OrNull(v) == IF Falsy(v) THEN Null ELSE v
\* v || 0
OrZero(v) == IF Falsy(v) THEN 0 ELSE v
\* ToNumber, used by the relational operators: null is 0
ToNumber(v) == IF v = Null THEN 0 ELSE v
JsLt(a, b) == a # NaN /\ b # NaN /\ ToNumber(a) < ToNumber(b)
JsGt(a, b) == JsLt(b, a)
JsLe(a, b) == a # NaN /\ b # NaN /\ ToNumber(a) <= ToNumber(b)
JsGe(a, b) == JsLe(b, a)
\* a - b on numbers; NaN is absorbing
JsSub(a, b) == IF a = NaN \/ b = NaN THEN NaN ELSE ToNumber(a) - ToNumber(b)
\* array.filter(Boolean).length
Score(conds) == Cardinality({i \in DOMAIN conds : conds[i]})

\* ------------------------------------------------------ program constants
\* setInterval period of the real-time revision
CheckIntervalMs == 30000
\* startup protection, 2 * 60 * 1000
startupProtectionMs == 2 * 60 * 1000
\* config.alertCooldown * 60 * 1000
cooldownMs(config) == config.alertCooldown * 60 * 1000
\* -0.001 and 0.001 in units of 0.001
MacdBullFloor == -1
MacdBearCeil == 1
\* width of the RSI zones, rsiLower + 10 and rsiUpper - 10
RsiZone == 10

\* ------------------------------------------------------------ market data
\* calculateMACD: histogram = macd - paddedSignal
Histogram(m, s) == JsSub(m, s)

\* processMarketData: the snapshot of the last bar, built from the computed
\* indicator values (numbers or NaN)
processMarketData(c) ==
  [close |-> c.close, volume |-> c.volume,
   rsi |-> OrNull(c.rsi),
   macd |-> OrNull(c.macd),
   macdSignal |-> OrNull(c.macdSignal),
   macdHistogram |-> OrNull(Histogram(c.macd, c.macdSignal))]

\* calculateTechnicalIndicators: the last values, "|| 0"
calculateTechnicalIndicators(c) ==
  [rsi |-> OrZero(c.rsi),
   macd |-> OrZero(c.macd),
   macdSignal |-> OrZero(c.macdSignal),
   macdHistogram |-> OrZero(Histogram(c.macd, c.macdSignal))]

\* checkSignals: the data check before the analysis
InsufficientData(latestData) ==
  Falsy(latestData.rsi) \/ Falsy(latestData.macd) \/ Falsy(latestData.macdSignal)

\* the InsertSignal object both analyzers return
InsertSignal(type, current) ==
  [type |-> type, price |-> current.close, rsi |-> current.rsi,
   macd |-> current.macd, macdSignal |-> current.macdSignal,
   volume |-> current.volume]

NoSignal == [type |-> "none", price |-> Null, rsi |-> Null, macd |-> Null,
             macdSignal |-> Null, volume |-> Null]

\* --------------------------------------------------------- the analyzers
\* buyConditions / sellConditions of analyzeSignalRealTime
buyConditions(current, config) ==
  << JsLe(current.rsi, config.rsiLower + RsiZone),
     JsGt(current.macd, current.macdSignal) /\ JsGt(current.macd, MacdBullFloor) >>

sellConditions(current, config) ==
  << JsGe(current.rsi, config.rsiUpper - RsiZone),
     JsLt(current.macd, current.macdSignal) /\ JsLt(current.macd, MacdBearCeil) >>

\* the decision at the end of analyzeSignalRealTime
DecideRealTime(buyScore, sellScore) ==
  IF buyScore >= 1 THEN "BUY"
  ELSE IF sellScore >= 1 THEN "SELL"
  ELSE "none"

\* analyzeSignalRealTime with the cooldown test written "<=": an evaluation
\* exactly one cooldown after the last alert is still suppressed
analyzeSignalRealTime_CooldownInclusive(current, config, self, t) ==
  LET guardSet == self.startupProtectionTime # Null
      guardActive == guardSet /\ (t - self.startupProtectionTime) < startupProtectionMs
      cleared == IF guardSet /\ ~guardActive
                   THEN [self EXCEPT !.startupProtectionTime = Null]
                   ELSE self
      cooldownActive == self.lastAlertTime # Null
                        /\ (t - self.lastAlertTime) <= cooldownMs(config)
      buyScore == Score(buyConditions(current, config))
      sellScore == Score(sellConditions(current, config))
      type == DecideRealTime(buyScore, sellScore)
  IN  IF guardActive THEN [signal |-> NoSignal, self |-> self]
      ELSE IF cooldownActive THEN [signal |-> NoSignal, self |-> cleared]
      ELSE IF type = "none" THEN [signal |-> NoSignal, self |-> cleared]
      ELSE [signal |-> InsertSignal(type, current), self |-> cleared]

\* analyzeSignalRealTime that ends the session when the startup protection
\* expires: it writes isRunning
analyzeSignalRealTime_WritesRunning(current, config, self, t) ==
  LET guardSet == self.startupProtectionTime # Null
      guardActive == guardSet /\ (t - self.startupProtectionTime) < startupProtectionMs
      cleared == IF guardSet /\ ~guardActive
                   THEN [self EXCEPT !.startupProtectionTime = Null,
                                     !.isRunning = FALSE]
                   ELSE self
      cooldownActive == self.lastAlertTime # Null
                        /\ (t - self.lastAlertTime) < cooldownMs(config)
      buyScore == Score(buyConditions(current, config))
      sellScore == Score(sellConditions(current, config))
      type == DecideRealTime(buyScore, sellScore)
  IN  IF guardActive THEN [signal |-> NoSignal, self |-> self]
      ELSE IF cooldownActive THEN [signal |-> NoSignal, self |-> cleared]
      ELSE IF type = "none" THEN [signal |-> NoSignal, self |-> cleared]
      ELSE [signal |-> InsertSignal(type, current), self |-> cleared]

\* analyzeSignalRealTime(current, config) at time t on the service fields
\* self; returns the signal and the fields after the call
analyzeSignalRealTime(current, config, self, t) ==
  LET guardSet == self.startupProtectionTime # Null
      guardActive == guardSet /\ (t - self.startupProtectionTime) < startupProtectionMs
      cleared == IF guardSet /\ ~guardActive
                   THEN [self EXCEPT !.startupProtectionTime = Null]
                   ELSE self
      cooldownActive == self.lastAlertTime # Null
                        /\ (t - self.lastAlertTime) < cooldownMs(config)
      buyScore == Score(buyConditions(current, config))
      sellScore == Score(sellConditions(current, config))
      type == DecideRealTime(buyScore, sellScore)
  IN  IF guardActive THEN [signal |-> NoSignal, self |-> self]
      ELSE IF cooldownActive THEN [signal |-> NoSignal, self |-> cleared]
      ELSE IF type = "none" THEN [signal |-> NoSignal, self |-> cleared]
      ELSE [signal |-> InsertSignal(type, current), self |-> cleared]

\* -------------------------------------------- standalone bot (bot-signals.js)
RSI_MIN == 30
RSI_MAX == 70

\* volumeOk = last.volume && last.volSma && last.volume > last.volSma * 0.8
volumeOk(last) ==
  ~Falsy(last.volume) /\ ~Falsy(last.volSma) /\ 10 * last.volume > 8 * last.volSma

\* the confirmations counted for each side
confirmationsBuy(last, prev) ==
  Score(<< prev.macd # Null /\ prev.macdSignal # Null
             /\ JsLt(prev.macd, prev.macdSignal) /\ JsGt(last.macd, last.macdSignal),
           JsLt(last.rsi, RSI_MIN),
           last.ema50 # Null /\ last.ema200 # Null /\ last.ema50 > last.ema200,
           volumeOk(last) >>)
confirmationsSell(last, prev) ==
  Score(<< prev.macd # Null /\ prev.macdSignal # Null
             /\ JsGt(prev.macd, prev.macdSignal) /\ JsLt(last.macd, last.macdSignal),
           JsGt(last.rsi, RSI_MAX),
           last.ema50 # Null /\ last.ema200 # Null /\ last.ema50 < last.ema200,
           volumeOk(last) >>)
minConfirms == 2

\* analyzeIndicators(df) on the last two rows of df
analyzeIndicators(last, prev) ==
  IF last.rsi = Null \/ last.macd = Null \/ last.macdSignal = Null \/ last.volSma = Null
    THEN "NEUTRO"
  ELSE IF confirmationsBuy(last, prev) >= minConfirms /\ volumeOk(last) THEN "COMPRA"
  ELSE IF confirmationsSell(last, prev) >= minConfirms /\ volumeOk(last) THEN "VENDA"
  ELSE "NEUTRO"

\* analyzeSignal with an inclusive RSI band
analyzeSignal_InclusiveBand(current, previous, config, self, t) ==
  LET macdCrossUp == JsLt(previous.macd, previous.macdSignal)
                     /\ JsGt(current.macd, current.macdSignal)
      macdCrossDown == JsGt(previous.macd, previous.macdSignal)
                       /\ JsLt(current.macd, current.macdSignal)
      rsiOk == JsGe(current.rsi, config.rsiLower) /\ JsLe(current.rsi, config.rsiUpper)
      volOk == JsGt(current.volume, 0)
      cooldownActive == self.lastAlertTime # Null
                        /\ (t - self.lastAlertTime) < cooldownMs(config)
  IN  IF ~rsiOk \/ ~volOk THEN [signal |-> NoSignal, self |-> self]
      ELSE IF cooldownActive THEN [signal |-> NoSignal, self |-> self]
      ELSE IF macdCrossUp THEN [signal |-> InsertSignal("BUY", current), self |-> self]
      ELSE IF macdCrossDown THEN [signal |-> InsertSignal("SELL", current), self |-> self]
      ELSE [signal |-> NoSignal, self |-> self]

\* analyzeSignal(current, previous, config) of the crossover revision
analyzeSignal(current, previous, config, self, t) ==
  LET macdCrossUp == JsLt(previous.macd, previous.macdSignal)
                     /\ JsGt(current.macd, current.macdSignal)
      macdCrossDown == JsGt(previous.macd, previous.macdSignal)
                       /\ JsLt(current.macd, current.macdSignal)
      rsiOk == JsGt(current.rsi, config.rsiLower) /\ JsLt(current.rsi, config.rsiUpper)
      volOk == JsGt(current.volume, 0)
      cooldownActive == self.lastAlertTime # Null
                        /\ (t - self.lastAlertTime) < cooldownMs(config)
  IN  IF ~rsiOk \/ ~volOk THEN [signal |-> NoSignal, self |-> self]
      ELSE IF cooldownActive THEN [signal |-> NoSignal, self |-> self]
      ELSE IF macdCrossUp THEN [signal |-> InsertSignal("BUY", current), self |-> self]
      ELSE IF macdCrossDown THEN [signal |-> InsertSignal("SELL", current), self |-> self]
      ELSE [signal |-> NoSignal, self |-> self]

\* the synchronous part of checkSignals after the data arrived: the data
\* check, then analyzeSignalRealTime
checkSignals(latestData, config, self, t) ==
  IF InsufficientData(latestData)
    THEN [signal |-> NoSignal, self |-> self, insufficient |-> TRUE]
    ELSE LET r == analyzeSignalRealTime(latestData, config, self, t)
         IN  [signal |-> r.signal, self |-> r.self, insufficient |-> FALSE]


\* ---------------------------------------------------------------- storage
\* createSignal that inserts the row twice
createSignal_Twice(rows, insertSignal, t) ==
  LET row == [type |-> insertSignal.type, price |-> insertSignal.price,
              rsi |-> insertSignal.rsi, macd |-> insertSignal.macd,
              macdSignal |-> insertSignal.macdSignal,
              volume |-> insertSignal.volume,
              timestamp |-> t, telegramSent |-> FALSE]
  IN  Append(Append(rows, row), row)

\* MemStorage.createSignal: a new row with timestamp = new Date() and
\* telegramSent = false
createSignal(rows, insertSignal, t) ==
  Append(rows, [type |-> insertSignal.type, price |-> insertSignal.price,
                rsi |-> insertSignal.rsi, macd |-> insertSignal.macd,
                macdSignal |-> insertSignal.macdSignal,
                volume |-> insertSignal.volume,
                timestamp |-> t, telegramSent |-> FALSE])

\* MemStorage.updateSignal(id, {telegramSent: true})
updateSignal(rows, id) ==
  IF id \in DOMAIN rows THEN [rows EXCEPT ![id].telegramSent = TRUE] ELSE rows

\* ------------------------------------------------------------------ state
VARIABLES
  now,                    \* Date.now()
  isRunning,              \* TradingBotService.isRunning
  lastAlertTime,          \* TradingBotService.lastAlertTime, Null or a time
  startupProtectionTime,  \* TradingBotService.startupProtectionTime
  intervalId,             \* TradingBotService.intervalId, Null or a timer id
  currentConfig,          \* TradingBotService.currentConfig
  timers,                 \* live setInterval timers: id -> next firing time
  starts,                 \* start() calls awaiting loadConfiguration
  ticks,                  \* the checkSignals executions in flight
  signals,                \* MemStorage.signals, in insertion order
  telegram,               \* TelegramService.token / chatId
  startedAt,              \* time of the start() that began the running session
  alertAtStop,            \* lastAlertTime as the last stop() left it
  lastEval,               \* the evaluation made by the last step, NoEval otherwise
  series,                 \* the bar series in the indicator pipeline and its results
  configurations,         \* MemStorage.configurations, in insertion order
  usageByChat,            \* bot-signals.js usageByChat: chatId -> {date, count}
  usageLog,               \* the /analise grants per chat and date, and the last call
  lastSignalTime,         \* standalone bot lastSignalTime: pair -> time of its last signal
  botLog,                 \* the alerts autoLoop sent, and the last run of the bot
  marketData,             \* MemStorage.marketData, in insertion order
  barLog,                 \* the series and the analyzeSignal arguments of the last tick
  processEnv,             \* process.env.TELEGRAM_TOKEN / TELEGRAM_CHAT_ID
  telegramTest            \* the POST /api/telegram/test request in progress

vars == << now, isRunning, lastAlertTime, startupProtectionTime, intervalId,
           currentConfig, timers, starts, ticks, signals, telegram,
           startedAt, alertAtStop, lastEval, series, configurations,
           usageByChat, usageLog, lastSignalTime, botLog, marketData, barLog,
           processEnv, telegramTest >>

\* the variables of the standalone bots, left alone by the service, the
\* pipeline and the routes
usageVars == << usageByChat, usageLog >>
botVars == << lastSignalTime, botLog >>
barVars == << marketData, barLog >>
tgVars == << processEnv, telegramTest >>
extVars == << usageVars, botVars, barVars, tgVars >>

\* the variables the timer path of the service and the analyzers do not touch
pipelineVars == << series, configurations, extVars >>

\* no series in the pipeline
NoSeries == [pc |-> "none"]

\* the stored configurations left out: the service keeps the one it loaded
NoConfigurations == << >>

\* --------------------------------------------- standalone bot: /analise usage
\* the chats that send /analise; PREMIUM_CHAT_IDS names one of them
Chats == {"free1", "free2", "premium"}
PREMIUM_CHAT_IDS == {"premium"}
FREE_DAILY_LIMIT == 1
DayMs == 24 * 60 * 60 * 1000
MaxUsageSteps == 4
UsageDates == 0..(MaxUsageSteps \div 2)

\* usageByChat.get(chatId) of a chat with no entry
NoUsage == [date |-> Null, count |-> 0]

\* no /analise call yet
NoUsageCall == [chat |-> "none", date |-> 0, allowed |-> FALSE, remaining |-> 0,
                before |-> NoUsage]

\* usageByChat after construction, and no grant made
UsageInit ==
  /\ usageByChat = [c \in Chats |-> NoUsage]
  /\ usageLog = [grants |-> [c \in Chats |-> [d \in UsageDates |-> 0]],
                 last |-> NoUsageCall]

\* ------------------------------------------ standalone bot: autoLoop, /signal
\* the monitored pair (SYMBOL, DEFAULT_SYMBOL) and another pair a chat asks for
SYMBOL == "XLM/USDT"
Pairs == {SYMBOL, "BTC/USDT"}

\* no run of the bot yet
NoBotRun == [by |-> "none", symbol |-> SYMBOL, side |-> "null", at |-> 0,
             before |-> Null]

\* lastSignalTime = new Map(): no pair has an entry; no alert sent
BotInit ==
  /\ lastSignalTime = [p \in Pairs |-> Null]
  /\ botLog = [alerts |-> << >>, last |-> NoBotRun]

\* ---------------------------------------------------- stored market data
\* no tick of the crossover revision yet
NoBarTick == [source |-> "none", fetched |-> << >>, recent |-> << >>,
              called |-> FALSE]

\* this.marketData = new Map(): no bar stored
BarInit ==
  /\ marketData = << >>
  /\ barLog = NoBarTick

\* ------------------------------------------------ POST /api/telegram/test
\* the environment carries no Telegram credentials
NoEnv == [TELEGRAM_TOKEN |-> Null, TELEGRAM_CHAT_ID |-> Null]

\* no test request in progress
NoTest == [pc |-> "idle", before |-> [token |-> Null, chatId |-> Null]]

TgInit ==
  /\ processEnv = NoEnv
  /\ telegramTest = NoTest

\* the standalone bots are not running, no bar is stored and no Telegram
\* test is in progress
ExtInit == UsageInit /\ BotInit /\ BarInit /\ TgInit

\* the fields of the service an evaluation can read or write
This == [isRunning |-> isRunning, lastAlertTime |-> lastAlertTime,
         startupProtectionTime |-> startupProtectionTime]

TimerIds == 1..MaxTimers

\* The executions of checkSignals are anonymous: they are kept as a sequence
\* ordered by position, each with the id of the row it stored (sig), the
\* number of rows it stored (stored) and whether sendMessage had credentials
\* (posted).
PcOrder == [fetch |-> 1, create |-> 2, testConn |-> 3, send |-> 4, update |-> 5]
TickKey(k) == PcOrder[k.pc] * 100 + k.sig * 10 + k.stored * 2
              + (IF k.posted THEN 1 ELSE 0)
Norm(seq) == SortSeq(seq, LAMBDA a, b : TickKey(a) < TickKey(b))
Without(seq, n) == [j \in 1..(Len(seq) - 1) |-> IF j < n THEN seq[j] ELSE seq[j + 1]]
NewTick == [pc |-> "fetch", sig |-> 0, stored |-> 0, posted |-> FALSE]

\* no evaluation
NoEval == [fn |-> "none", at |-> 0, startedAt |-> Null,
           before |-> [isRunning |-> FALSE, lastAlertTime |-> Null,
                       startupProtectionTime |-> Null],
           after |-> [isRunning |-> FALSE, lastAlertTime |-> Null,
                      startupProtectionTime |-> Null],
           computed |-> [rsi |-> NaN, macd |-> NaN, macdSignal |-> NaN,
                         close |-> 0, volume |-> 0],
           latest |-> [close |-> 0, volume |-> 0, rsi |-> Null, macd |-> Null,
                       macdSignal |-> Null, macdHistogram |-> Null],
           previous |-> [macd |-> Null, macdSignal |-> Null],
           insufficient |-> FALSE, signal |-> NoSignal]

\* ------------------------------------------------------------ input sets
\* the configurations the service runs with: the stored active configuration
\* (rsiLower 20, rsiUpper 80 as in the MemStorage default), the cooldown in
\* minutes, and the Telegram credentials of the environment or the row
Cooldowns == {3}
Configs == [alertCooldown : Cooldowns, rsiLower : {20}, rsiUpper : {80},
            telegramToken : {Null, 1}, telegramChatId : {7}]

\* computed indicator values of the last bar that a tick of Spec may receive
MainInputs ==
  { [rsi |-> NaN, macd |-> NaN, macdSignal |-> NaN, close |-> 1001, volume |-> 5],
    [rsi |-> 25, macd |-> 2, macdSignal |-> 1, close |-> 1001, volume |-> 5],
    [rsi |-> 75, macd |-> -2, macdSignal |-> -1, close |-> 1001, volume |-> 5],
    [rsi |-> 50, macd |-> 2, macdSignal |-> 3, close |-> 1001, volume |-> 5] }

\* ------------------------------------------------------------------- Init
Init ==
  /\ now = 0
  /\ isRunning = FALSE
  /\ lastAlertTime = Null
  /\ startupProtectionTime = Null
  /\ intervalId = Null
  /\ currentConfig \in Configs
  /\ timers = << >>
  /\ starts = 0
  /\ ticks = << >>
  /\ signals = << >>
  /\ telegram = [token |-> currentConfig.telegramToken,
                 chatId |-> IF currentConfig.telegramToken = Null
                              THEN Null ELSE currentConfig.telegramChatId]
  /\ startedAt = Null
  /\ alertAtStop = Null
  /\ lastEval = NoEval
  /\ series = NoSeries
  /\ configurations = NoConfigurations
  /\ ExtInit

\* telegramToken && telegramChatId of loadConfiguration / processSignal
HasCredentials(config) ==
  ~Falsy(config.telegramToken) /\ ~Falsy(config.telegramChatId)

\* loadConfiguration: the credentials handed to telegramService
loadConfiguration(config, tg) ==
  IF HasCredentials(config)
    THEN [token |-> config.telegramToken, chatId |-> config.telegramChatId]
    ELSE tg

\* ------------------------------------------------------------ start, stop
\* start() as in the crossover revision: no startup protection
startFields_NoProtection(self, t) ==
  [self EXCEPT !.isRunning = TRUE]

\* what start() assigns after loadConfiguration: isRunning and the startup
\* protection; lastAlertTime is not assigned
startFields(self, t) ==
  [self EXCEPT !.isRunning = TRUE, !.startupProtectionTime = t]

\* stop() that also resets the cooldown
stopFields_ResetAlert(self) ==
  [self EXCEPT !.isRunning = FALSE, !.startupProtectionTime = Null,
               !.lastAlertTime = Null]

\* what stop() assigns
stopFields(self) ==
  [self EXCEPT !.isRunning = FALSE, !.startupProtectionTime = Null]

\* start() up to its await: returns at once when the bot is running
StartCall ==
  /\ ~isRunning
  /\ Cardinality(DOMAIN timers) + starts < MaxTimers
  /\ starts' = starts + 1
  /\ lastEval' = NoEval
  /\ UNCHANGED << now, isRunning, lastAlertTime, startupProtectionTime,
                  intervalId, currentConfig, timers, ticks, signals,
                  telegram, startedAt,
                  alertAtStop >>
  /\ UNCHANGED pipelineVars

\* start() after loadConfiguration resolved
StartFinish ==
  /\ starts > 0
  /\ starts' = starts - 1
  /\ telegram' = loadConfiguration(currentConfig, telegram)
  /\ LET self == startFields(This, now)
     IN  /\ isRunning' = self.isRunning
         /\ lastAlertTime' = self.lastAlertTime
         /\ startupProtectionTime' = self.startupProtectionTime
  /\ startedAt' = now
  /\ LET id == CHOOSE i \in TimerIds \ DOMAIN timers :
                 \A j \in TimerIds \ DOMAIN timers : i <= j
     IN  /\ timers' = [i \in DOMAIN timers \cup {id} |->
                         IF i = id THEN now + CheckIntervalMs ELSE timers[i]]
         /\ intervalId' = id
  /\ lastEval' = NoEval
  /\ UNCHANGED << now, currentConfig, ticks, signals,
                  alertAtStop >>
  /\ UNCHANGED pipelineVars

\* stop()
Stop ==
  /\ isRunning
  /\ LET self == stopFields(This)
     IN  /\ isRunning' = self.isRunning
         /\ lastAlertTime' = self.lastAlertTime
         /\ startupProtectionTime' = self.startupProtectionTime
  /\ startedAt' = Null
  /\ alertAtStop' = stopFields(This).lastAlertTime
  /\ IF intervalId # Null
       THEN /\ timers' = [i \in DOMAIN timers \ {intervalId} |-> timers[i]]
            /\ intervalId' = Null
       ELSE UNCHANGED << timers, intervalId >>
  /\ lastEval' = NoEval
  /\ UNCHANGED << now, currentConfig, starts, ticks, signals, telegram >>
  /\ UNCHANGED pipelineVars

\* ------------------------------------------------------------ the clock
\* 30 s pass.  A timer that is due fires first, and the awaits on the
\* in-memory storage (loadConfiguration, createSignal, updateSignal) resolve
\* within the instant: only the network awaits last across clock steps.
Advance ==
  /\ now < MaxSteps * CheckIntervalMs
  /\ \A i \in DOMAIN timers : timers[i] > now
  /\ starts = 0
  /\ \A n \in DOMAIN ticks : ticks[n].pc \notin {"create", "update"}
  /\ now' = now + CheckIntervalMs
  /\ lastEval' = NoEval
  /\ UNCHANGED << isRunning, lastAlertTime, startupProtectionTime, intervalId,
                  currentConfig, timers, starts, ticks, signals, telegram,
                  startedAt,
                  alertAtStop >>
  /\ UNCHANGED pipelineVars

\* ------------------------------------------------------------ checkSignals
\* the setInterval callback: checkSignals runs up to the await of
\* processMarketData
TimerFire(i) ==
  /\ i \in DOMAIN timers
  /\ timers[i] <= now
  /\ Len(ticks) < MaxInFlight
  /\ timers' = [timers EXCEPT ![i] = @ + CheckIntervalMs]
  /\ ticks' = Norm(Append(ticks, NewTick))
  /\ lastEval' = NoEval
  /\ UNCHANGED << now, isRunning, lastAlertTime, startupProtectionTime,
                  intervalId, currentConfig, starts, signals, telegram,
                  startedAt,
                  alertAtStop >>
  /\ UNCHANGED pipelineVars

\* no data: processMarketData and the demo fallback both failed, or the
\* fallback returned nothing; checkSignals returns
FetchFail(n) ==
  /\ n \in DOMAIN ticks
  /\ ticks[n].pc = "fetch"
  /\ ticks' = Without(ticks, n)
  /\ lastEval' = NoEval
  /\ UNCHANGED << now, isRunning, lastAlertTime, startupProtectionTime,
                  intervalId, currentConfig, timers, starts, signals,
                  telegram, startedAt,
                  alertAtStop >>
  /\ UNCHANGED pipelineVars

\* the data arrived: data check, analyzeSignalRealTime and, for a signal,
\* processSignal up to the await of storage.createSignal
FetchDone(n, c) ==
  /\ n \in DOMAIN ticks
  /\ ticks[n].pc = "fetch"
  /\ LET r == checkSignals(processMarketData(c), currentConfig, This, now)
         rows == IF r.signal.type = "none" THEN signals
                 ELSE createSignal(signals, r.signal, now)
     IN  /\ Len(rows) <= MaxSignals
         /\ isRunning' = r.self.isRunning
         /\ lastAlertTime' = r.self.lastAlertTime
         /\ startupProtectionTime' = r.self.startupProtectionTime
         /\ signals' = rows
         /\ ticks' = IF r.signal.type = "none" THEN Without(ticks, n)
                     ELSE Norm([ticks EXCEPT ![n] =
                                  [pc |-> "create", sig |-> Len(rows),
                                   stored |-> Len(rows) - Len(signals),
                                   posted |-> FALSE]])
         /\ lastEval' = [fn |-> "realtime", at |-> now, startedAt |-> startedAt,
                         before |-> This, after |-> r.self, computed |-> c,
                         latest |-> processMarketData(c),
                         previous |-> NoEval.previous,
                         insufficient |-> r.insufficient, signal |-> r.signal]
  /\ UNCHANGED << now, intervalId, currentConfig, timers, starts, telegram,
                  startedAt,
                  alertAtStop >>
  /\ UNCHANGED pipelineVars

\* processSignal after createSignal resolved: with credentials, update them
\* and call testConnection; without, set lastAlertTime and return
CreateDone(n) ==
  /\ n \in DOMAIN ticks
  /\ ticks[n].pc = "create"
  /\ IF HasCredentials(currentConfig)
       THEN /\ telegram' = [token |-> currentConfig.telegramToken,
                            chatId |-> currentConfig.telegramChatId]
            /\ ticks' = Norm([ticks EXCEPT ![n].pc = "testConn"])
            /\ UNCHANGED lastAlertTime
       ELSE /\ lastAlertTime' = now
            /\ ticks' = Without(ticks, n)
            /\ UNCHANGED telegram
  /\ lastEval' = NoEval
  /\ UNCHANGED << now, isRunning, startupProtectionTime, intervalId,
                  currentConfig, timers, starts, signals, startedAt,
                  alertAtStop >>
  /\ UNCHANGED pipelineVars

\* testConnection resolved: on failure processSignal returns; otherwise it
\* calls sendSignalAlert
TestConnDone(n, isConnected) ==
  /\ n \in DOMAIN ticks
  /\ ticks[n].pc = "testConn"
  /\ IF ~isConnected
       THEN ticks' = Without(ticks, n)
       ELSE ticks' = Norm([ticks EXCEPT ![n].pc = "send",
                                        ![n].posted = ~Falsy(telegram.token)
                                                      /\ ~Falsy(telegram.chatId)])
  /\ lastEval' = NoEval
  /\ UNCHANGED << now, isRunning, lastAlertTime, startupProtectionTime,
                  intervalId, currentConfig, timers, starts, signals,
                  telegram, startedAt,
                  alertAtStop >>
  /\ UNCHANGED pipelineVars

\* sendSignalAlert resolved: when sent, mark the row through updateSignal;
\* otherwise set lastAlertTime and return
SendDone(n, ok) ==
  /\ n \in DOMAIN ticks
  /\ ticks[n].pc = "send"
  /\ IF ticks[n].posted /\ ok
       THEN /\ signals' = updateSignal(signals, ticks[n].sig)
            /\ ticks' = Norm([ticks EXCEPT ![n].pc = "update"])
            /\ UNCHANGED lastAlertTime
       ELSE /\ lastAlertTime' = now
            /\ ticks' = Without(ticks, n)
            /\ UNCHANGED signals
  /\ lastEval' = NoEval
  /\ UNCHANGED << now, isRunning, startupProtectionTime, intervalId,
                  currentConfig, timers, starts, telegram, startedAt,
                  alertAtStop >>
  /\ UNCHANGED pipelineVars

\* updateSignal resolved: set lastAlertTime
UpdateDone(n) ==
  /\ n \in DOMAIN ticks
  /\ ticks[n].pc = "update"
  /\ lastAlertTime' = now
  /\ ticks' = Without(ticks, n)
  /\ lastEval' = NoEval
  /\ UNCHANGED << now, isRunning, startupProtectionTime, intervalId,
                  currentConfig, timers, starts, signals, telegram, startedAt,
                  alertAtStop >>
  /\ UNCHANGED pipelineVars

Flights == 1..MaxInFlight

Next ==
  \/ StartCall
  \/ StartFinish
  \/ Stop
  \/ Advance
  \/ \E i \in TimerIds : TimerFire(i)
  \/ \E n \in Flights : FetchFail(n)
  \/ \E n \in Flights, c \in MainInputs : FetchDone(n, c)
  \/ \E n \in Flights : CreateDone(n)
  \/ \E n \in Flights, isConnected \in BOOLEAN : TestConnDone(n, isConnected)
  \/ \E n \in Flights, ok \in BOOLEAN : SendDone(n, ok)
  \/ \E n \in Flights : UpdateDone(n)

Spec == Init /\ [][Next]_vars

\* ============================================================== SpecEval
\* The evaluation functions on their own.  Init draws the fields of the
\* service and the time; each action applies one analyzer to one input, and
\* the clock moves on before the next evaluation.
MaxEvalSteps == 4

EvalTimes == {k * CheckIntervalMs : k \in 0..MaxEvalSteps}
EvalConfigs == [alertCooldown : {1}, rsiLower : {20}, rsiUpper : {80},
                telegramToken : {Null}, telegramChatId : {7}]

\* computed values of the last bar: NaN during warm-up, otherwise numbers
EvalInputs ==
  [rsi : {NaN, 0, 10, 20, 30, 31, 50, 69, 70, 80, 90},
   macd : {NaN, -2, -1, 0, 1, 2},
   macdSignal : {NaN, -3, 0, 1, 3},
   close : {1001}, volume : {5}]

\* stored rows handed to analyzeSignal: null or non-zero numbers
EvalCurrent ==
  [rsi : {Null, 20, 45, 85}, macd : {Null, -1, 1}, macdSignal : {Null, -3, 3},
   close : {1001}, volume : {0, 5}]
EvalPrevious == [macd : {Null, -2, 2}, macdSignal : {Null, -1, 1}]

InitEval ==
  /\ now \in EvalTimes
  /\ isRunning = TRUE
  /\ lastAlertTime \in {Null} \cup {t \in EvalTimes : t <= now}
  /\ startupProtectionTime \in {Null} \cup {t \in EvalTimes : t <= now}
  /\ intervalId = Null
  /\ currentConfig \in EvalConfigs
  /\ timers = << >>
  /\ starts = 0
  /\ ticks = << >>
  /\ signals = << >>
  /\ telegram = [token |-> Null, chatId |-> Null]
  /\ startedAt = Null
  /\ alertAtStop = Null
  /\ lastEval = NoEval
  /\ series = NoSeries
  /\ configurations = NoConfigurations
  /\ ExtInit

\* checkSignals of the real-time revision from the arrival of the data to the
\* result of analyzeSignalRealTime
EvalRealTime(c) ==
  /\ lastEval = NoEval
  /\ LET r == checkSignals(processMarketData(c), currentConfig, This, now)
     IN  /\ isRunning' = r.self.isRunning
         /\ lastAlertTime' = r.self.lastAlertTime
         /\ startupProtectionTime' = r.self.startupProtectionTime
         /\ lastEval' = [fn |-> "realtime", at |-> now, startedAt |-> startedAt,
                         before |-> This, after |-> r.self, computed |-> c,
                         latest |-> processMarketData(c),
                         previous |-> NoEval.previous,
                         insufficient |-> r.insufficient, signal |-> r.signal]
  /\ UNCHANGED << now, intervalId, currentConfig, timers, starts, ticks,
                  signals, telegram, startedAt,
                  alertAtStop >>
  /\ UNCHANGED pipelineVars

\* analyzeSignal of the crossover revision on two stored rows
EvalCrossover(current, previous) ==
  /\ lastEval = NoEval
  /\ LET r == analyzeSignal(current, previous, currentConfig, This, now)
     IN  /\ isRunning' = r.self.isRunning
         /\ lastAlertTime' = r.self.lastAlertTime
         /\ startupProtectionTime' = r.self.startupProtectionTime
         /\ lastEval' = [fn |-> "crossover", at |-> now, startedAt |-> startedAt,
                         before |-> This, after |-> r.self, computed |-> current,
                         latest |-> [current EXCEPT !.close = current.close] @@
                                    [macdHistogram |-> Null],
                         previous |-> previous,
                         insufficient |-> FALSE, signal |-> r.signal]
  /\ UNCHANGED << now, intervalId, currentConfig, timers, starts, ticks,
                  signals, telegram, startedAt,
                  alertAtStop >>
  /\ UNCHANGED pipelineVars

\* rows of the standalone bot's table: null until the series is long enough
EvalRows ==
  [rsi : {Null, 25, 50, 75}, macd : {-1, 1}, macdSignal : {0},
   ema50 : {Null, 1, 3}, ema200 : {2}, volume : {0, 10}, volSma : {Null, 10}]
EvalPrevRows == [macd : {Null, -1, 1}, macdSignal : {0}]

\* analyzeIndicators of the standalone bot on the last two rows
EvalIndicators(last, prev) ==
  /\ lastEval = NoEval
  /\ lastEval' = [fn |-> "indicators", at |-> now, startedAt |-> startedAt,
                  before |-> This, after |-> This, computed |-> last,
                  latest |-> last, previous |-> prev,
                  insufficient |-> FALSE,
                  signal |-> [NoSignal EXCEPT !.type = analyzeIndicators(last, prev)]]
  /\ UNCHANGED << now, isRunning, lastAlertTime, startupProtectionTime,
                  intervalId, currentConfig, timers, starts, ticks,
                  signals, telegram, startedAt, alertAtStop >>
  /\ UNCHANGED pipelineVars

\* time passes between two evaluations
EvalAdvance ==
  /\ now < MaxEvalSteps * CheckIntervalMs
  /\ now' = now + CheckIntervalMs
  /\ lastEval' = NoEval
  /\ UNCHANGED << isRunning, lastAlertTime, startupProtectionTime, intervalId,
                  currentConfig, timers, starts, ticks, signals, telegram,
                  startedAt,
                  alertAtStop >>
  /\ UNCHANGED pipelineVars

NextEval ==
  \/ \E c \in EvalInputs : EvalRealTime(c)
  \/ \E current \in EvalCurrent, previous \in EvalPrevious :
       EvalCrossover(current, previous)
  \/ \E last \in EvalRows, prev \in EvalPrevRows : EvalIndicators(last, prev)
  \/ EvalAdvance

SpecEval == InitEval /\ [][NextEval]_vars

\* ================================================================ claims
\* the last evaluation was not suppressed by the startup protection
GuardExpired ==
  \/ lastEval.fn = "crossover"
  \/ lastEval.before.startupProtectionTime = Null
  \/ lastEval.at - lastEval.before.startupProtectionTime >= startupProtectionMs

\* the input of the last real-time evaluation is defined and meets at least
\* one buy or sell condition
QualifiesRealTime ==
  LET c == lastEval.computed
  IN  /\ c.rsi \notin {NaN, 0} /\ c.macd \notin {NaN, 0} /\ c.macdSignal \notin {NaN, 0}
      /\ \/ c.rsi <= currentConfig.rsiLower + 10
         \/ c.rsi >= currentConfig.rsiUpper - 10
         \/ (c.macd > c.macdSignal /\ c.macd > MacdBullFloor)
         \/ (c.macd < c.macdSignal /\ c.macd < MacdBearCeil)

\* upward and downward crossover between the two rows of the last crossover
\* evaluation, and the RSI band, with the comparisons of JavaScript
CrossUp ==
  JsLt(lastEval.previous.macd, lastEval.previous.macdSignal)
  /\ JsGt(lastEval.computed.macd, lastEval.computed.macdSignal)
CrossDown ==
  JsGt(lastEval.previous.macd, lastEval.previous.macdSignal)
  /\ JsLt(lastEval.computed.macd, lastEval.computed.macdSignal)
RsiInBand ==
  JsLt(currentConfig.rsiLower, lastEval.computed.rsi)
  /\ JsLt(lastEval.computed.rsi, currentConfig.rsiUpper)

QualifiesCrossover ==
  (CrossUp \/ CrossDown) /\ RsiInBand /\ lastEval.computed.volume > 0

Qualifies ==
  IF lastEval.fn = "crossover" THEN QualifiesCrossover ELSE QualifiesRealTime

\* the cooldown is active at the last evaluation
CooldownActive ==
  /\ lastEval.before.lastAlertTime # Null
  /\ lastEval.at - lastEval.before.lastAlertTime < cooldownMs(currentConfig)

\* C1: with lastAlertTime = t0, every evaluation at a time now with
\* now - t0 < cooldown returns no signal whatever the indicator values are,
\* and an evaluation with now - t0 >= cooldown, the startup protection
\* expired and qualifying indicators returns a signal (both analyzers).
C1_CooldownGate ==
  lastEval.fn \in {"realtime", "crossover"} =>
    /\ CooldownActive => lastEval.signal.type = "none"
    /\ ( /\ lastEval.before.lastAlertTime # Null
         /\ ~CooldownActive
         /\ GuardExpired
         /\ Qualifies ) => lastEval.signal.type \in {"BUY", "SELL"}

\* an evaluation with qualifying indicators, no startup protection and an
\* active cooldown: it returned no signal
C1_Witness ==
  /\ lastEval.fn = "realtime"
  /\ CooldownActive
  /\ lastEval.at > lastEval.before.lastAlertTime
  /\ GuardExpired
  /\ Qualifies
  /\ lastEval.signal.type = "none"

\* an evaluation exactly one cooldown after the last alert returned a signal
C1_WitnessExpired ==
  /\ lastEval.fn = "realtime"
  /\ lastEval.before.lastAlertTime # Null
  /\ lastEval.at - lastEval.before.lastAlertTime = cooldownMs(currentConfig)
  /\ lastEval.signal.type = "BUY"

C2_WitnessCleared ==
  /\ lastEval.fn = "realtime"
  /\ lastEval.startedAt # Null
  /\ lastEval.before.startupProtectionTime # Null
  /\ lastEval.after.startupProtectionTime = Null

\* C3: any two signals stored by processSignal are at least alertCooldown
\* minutes apart.
C3_SignalsCooldownApart ==
  \A i, j \in DOMAIN signals :
    i < j => signals[j].timestamp - signals[i].timestamp >= cooldownMs(currentConfig)

\* C4: once processSignal has finished for a stored signal, lastAlertTime is
\* set and not earlier than the signal, on every path through processSignal.
C4_AlertTimeSet ==
  \A i \in DOMAIN signals :
    \/ \E n \in DOMAIN ticks : ticks[n].sig = i
    \/ lastAlertTime # Null /\ lastAlertTime >= signals[i].timestamp

\* C5: stop() sets isRunning to false, clears the startup protection and
\* leaves lastAlertTime unchanged; the start() that follows leaves
\* lastAlertTime unchanged; and an evaluation made while the cooldown is
\* active returns no signal, whether or not a stop/start cycle lies between.
C5_StopStartKeepCooldown ==
  [][ /\ (isRunning /\ ~isRunning') =>
           (startupProtectionTime' = Null /\ lastAlertTime' = lastAlertTime)
      /\ (starts' < starts) => (isRunning' /\ lastAlertTime' = lastAlertTime)
      /\ ( /\ lastEval'.fn = "realtime"
           /\ lastEval' # lastEval
           /\ lastAlertTime # Null
           /\ now - lastAlertTime < cooldownMs(currentConfig) ) =>
           lastEval'.signal.type = "none" ]_vars

\* after a stop/start cycle an evaluation with qualifying indicators, made
\* after the startup protection expired, is suppressed by the cooldown that
\* stop() left in place
C5_Witness ==
  /\ lastEval.fn = "realtime"
  /\ lastEval.startedAt # Null
  /\ alertAtStop # Null
  /\ lastEval.before.lastAlertTime = alertAtStop
  /\ GuardExpired
  /\ CooldownActive
  /\ Qualifies
  /\ lastEval.signal.type = "none"

\* C6: one checkSignals execution stores at most one signal.
C6_OneSignalPerTick ==
  \A n \in DOMAIN ticks : ticks[n].stored <= 1

\* a checkSignals execution that has stored its signal and is still in
\* processSignal
C6_Witness ==
  \E n \in DOMAIN ticks :
    /\ ticks[n].stored = 1
    /\ ticks[n].sig \in DOMAIN signals
    /\ signals[ticks[n].sig].type \in {"BUY", "SELL"}

\* scores of the last real-time evaluation
BuyScore == Score(buyConditions(lastEval.latest, currentConfig))
SellScore == Score(sellConditions(lastEval.latest, currentConfig))

\* C7: when the buy score and the sell score both reach the threshold, BUY
\* is emitted only if the buy score is strictly greater, and with equal
\* scores no signal is emitted (analyzeSignalRealTime with threshold 1,
\* analyzeIndicators with threshold minConfirms).
C7_TieGivesNoSignal ==
  /\ ( /\ lastEval.fn = "realtime"
       /\ ~lastEval.insufficient
       /\ BuyScore >= 1
       /\ SellScore >= 1 ) =>
         /\ lastEval.signal.type = "BUY" => BuyScore > SellScore
         /\ BuyScore = SellScore => lastEval.signal.type = "none"
  /\ lastEval.fn = "indicators" =>
       LET cb == confirmationsBuy(lastEval.computed, lastEval.previous)
           cs == confirmationsSell(lastEval.computed, lastEval.previous)
       IN  (cb >= minConfirms /\ cs >= minConfirms) =>
             /\ lastEval.signal.type = "COMPRA" => cb > cs
             /\ cb = cs => lastEval.signal.type = "NEUTRO"

\* C7 for analyzeSignalRealTime alone
C7_TieRealTime ==
  ( /\ lastEval.fn = "realtime"
    /\ ~lastEval.insufficient
    /\ BuyScore >= 1
    /\ SellScore >= 1
    /\ BuyScore = SellScore ) => lastEval.signal.type = "none"

\* C7 for analyzeIndicators alone
C7_TieIndicators ==
  lastEval.fn = "indicators" =>
    LET cb == confirmationsBuy(lastEval.computed, lastEval.previous)
        cs == confirmationsSell(lastEval.computed, lastEval.previous)
    IN  (cb >= minConfirms /\ cs = cb) => lastEval.signal.type = "NEUTRO"

\* the returned signal carries the current close, rsi, macd and macdSignal
CarriesCurrent ==
  lastEval.signal.type # "none" =>
    /\ lastEval.signal.price = lastEval.computed.close
    /\ lastEval.signal.rsi = lastEval.computed.rsi
    /\ lastEval.signal.macd = lastEval.computed.macd
    /\ lastEval.signal.macdSignal = lastEval.computed.macdSignal

\* C8 as stated: with no cooldown active analyzeSignal returns BUY iff upward
\* crossover and rsiLower < rsi < rsiUpper, SELL iff downward crossover and
\* the same band, none otherwise, and the signal carries the current values.
C8_CrossoverIff ==
  (lastEval.fn = "crossover" /\ ~CooldownActive) =>
    /\ lastEval.signal.type = "BUY" <=> (CrossUp /\ RsiInBand)
    /\ lastEval.signal.type = "SELL" <=> (CrossDown /\ RsiInBand)
    /\ CarriesCurrent

\* C8 amended: the same with current.volume > 0 added to both sides.
C8_CrossoverIffVolume ==
  (lastEval.fn = "crossover" /\ ~CooldownActive) =>
    /\ lastEval.signal.type = "BUY" <=>
         (CrossUp /\ RsiInBand /\ JsGt(lastEval.computed.volume, 0))
    /\ lastEval.signal.type = "SELL" <=>
         (CrossDown /\ RsiInBand /\ JsGt(lastEval.computed.volume, 0))
    /\ CarriesCurrent

\* an upward crossover inside the band on a bar with volume: BUY at the close
C8_Witness ==
  /\ lastEval.fn = "crossover"
  /\ ~CooldownActive
  /\ CrossUp /\ RsiInBand
  /\ lastEval.computed.volume > 0
  /\ lastEval.signal.type = "BUY"
  /\ lastEval.signal.price = lastEval.computed.close

\* number of checkSignals executions inside a Telegram request
InTelegram(seq) ==
  Cardinality({n \in DOMAIN seq : seq[n].pc \in {"testConn", "send"}})

C10_DefinednessPreserved ==
  lastEval.fn = "realtime" =>
    LET c == lastEval.computed
        snap == lastEval.latest
    IN  /\ (c.rsi = NaN) <=> (snap.rsi = Null)
        /\ (c.macd = NaN) <=> (snap.macd = Null)
        /\ (c.macdSignal = NaN) <=> (snap.macdSignal = Null)
        /\ (Histogram(c.macd, c.macdSignal) = NaN) <=> (snap.macdHistogram = Null)
        /\ lastEval.insufficient <=>
             (c.rsi = NaN \/ c.macd = NaN \/ c.macdSignal = NaN)
        /\ \A f \in {"rsi", "macd", "macdSignal"} :
             c[f] = NaN => calculateTechnicalIndicators(c)[f] = NaN

\* ===================================================== indicator pipeline
\* The indicator functions compute on JavaScript numbers.  A value is kept
\* exactly, as a fraction n/d in lowest terms with d > 0; d = 0 marks the two
\* values that are not numbers of a series, NaN and null.
RNaN == [n |-> 0, d |-> 0]
RNull == [n |-> 1, d |-> 0]
IsNum(x) == x.d # 0

Abs(k) == IF k < 0 THEN -k ELSE k

RECURSIVE Gcd(_, _)
Gcd(a, b) == IF b = 0 THEN a ELSE Gcd(b, a % b)

\* n/d in lowest terms
Frac(n, d) ==
  IF d = 0 THEN RNaN
  ELSE LET g == Gcd(Abs(n), Abs(d))
           sgn == IF d < 0 THEN -1 ELSE 1
       IN  [n |-> (sgn * n) \div g, d |-> (sgn * d) \div g]
R(k) == [n |-> k, d |-> 1]

\* +, -, *, / of two values; NaN when an operand is not a number
RAdd(a, b) == IF IsNum(a) /\ IsNum(b) THEN Frac(a.n * b.d + b.n * a.d, a.d * b.d) ELSE RNaN
RSub(a, b) == IF IsNum(a) /\ IsNum(b) THEN Frac(a.n * b.d - b.n * a.d, a.d * b.d) ELSE RNaN
RMul(a, b) == IF IsNum(a) /\ IsNum(b) THEN Frac(a.n * b.n, a.d * b.d) ELSE RNaN
RDiv(a, b) == IF IsNum(a) /\ IsNum(b) THEN Frac(a.n * b.d, a.d * b.n) ELSE RNaN

\* <, <=, >, >= : null counts as 0, every comparison with NaN is false
RNum(x) == IF x = RNull THEN R(0) ELSE x
RLt(a, b) == IsNum(RNum(a)) /\ IsNum(RNum(b)) /\ RNum(a).n * RNum(b).d < RNum(b).n * RNum(a).d
RLe(a, b) == IsNum(RNum(a)) /\ IsNum(RNum(b)) /\ RNum(a).n * RNum(b).d <= RNum(b).n * RNum(a).d
RGt(a, b) == RLt(b, a)
RGe(a, b) == RLe(b, a)

\* !x and x || null on these values
RFalsy(x) == ~IsNum(x) \/ x.n = 0
ROrNull(x) == IF RFalsy(x) THEN RNull ELSE x

\* the sum of a sequence of numbers, values.reduce((a, b) => a + b, 0)
RECURSIVE RSum(_)
RSum(values) ==
  IF values = << >> THEN R(0) ELSE RAdd(RSum(SubSeq(values, 1, Len(values) - 1)), values[Len(values)])

\* values.slice(from, to) with JavaScript's 0-based, end-exclusive indices
Slice(values, from, to) == SubSeq(values, from + 1, to)

\* ----------------------------------------------- MarketDataService series
\* calculateSMA(values, period)
calculateSMA(values, period) ==
  [j \in 1..Len(values) |->
     LET i == j - 1
     IN  IF i < period - 1 THEN RNaN
         ELSE RDiv(RSum(Slice(values, i - period + 1, i + 1)), R(period))]

\* calculateEMA(values, period): seeded with values[0]
RECURSIVE EmaUpTo(_, _, _)
EmaUpTo(values, multiplier, len) ==
  IF len = 0 THEN << >>
  ELSE LET ema == EmaUpTo(values, multiplier, len - 1)
       IN  Append(ema,
                  IF len = 1 THEN values[1]
                  ELSE RAdd(RMul(values[len], multiplier),
                            RMul(ema[len - 1], RSub(R(1), multiplier))))
calculateEMA(values, period) ==
  EmaUpTo(values, Frac(2, period + 1), Len(values))

\* gains and losses between consecutive values
Gains(values) ==
  [j \in 1..(IF Len(values) = 0 THEN 0 ELSE Len(values) - 1) |->
     LET change == RSub(values[j + 1], values[j])
     IN  IF RGt(change, R(0)) THEN change ELSE R(0)]
Losses(values) ==
  [j \in 1..(IF Len(values) = 0 THEN 0 ELSE Len(values) - 1) |->
     LET change == RSub(values[j + 1], values[j])
     IN  IF RLt(change, R(0)) THEN RSub(R(0), change) ELSE R(0)]

\* the RSI formula without the 1 +
RsiOf_NoOne(rs) == RSub(R(100), RDiv(R(100), rs))

\* 100 - 100 / (1 + rs)
RsiOf(rs) == RSub(R(100), RDiv(R(100), RAdd(R(1), rs)))

\* calculateRSI(values, period): the average over the last period changes
calculateRSI(values, period) ==
  LET gains == Gains(values)
      losses == Losses(values)
      rsi == [j \in 1..Len(gains) |->
                LET i == j - 1
                IN  IF i < period - 1 THEN RNaN
                    ELSE LET avgGain == RDiv(RSum(Slice(gains, i - period + 1, i + 1)), R(period))
                             avgLoss == RDiv(RSum(Slice(losses, i - period + 1, i + 1)), R(period))
                         IN  IF avgLoss = R(0) THEN R(100)
                             ELSE RsiOf(RDiv(avgGain, avgLoss))]
  IN  << RNaN >> \o rsi

\* calculateMACD(values, fastPeriod, slowPeriod, signalPeriod)
calculateMACD(values, fastPeriod, slowPeriod, signalPeriod) ==
  LET fastEMA == calculateEMA(values, fastPeriod)
      slowEMA == calculateEMA(values, slowPeriod)
      macd == [j \in 1..Len(values) |-> RSub(fastEMA[j], slowEMA[j])]
      signal == calculateEMA(SelectSeq(macd, IsNum), signalPeriod)
      paddedSignal == [j \in 1..(Len(macd) - Len(signal)) |-> RNaN] \o signal
      histogram == [j \in 1..Len(macd) |-> RSub(macd[j], paddedSignal[j])]
  IN  [macd |-> macd, signal |-> paddedSignal, histogram |-> histogram]

\* processMarketData: one row per bar, each indicator value "|| null"
processMarketDataRows(closes, config) ==
  LET rsiValues == calculateRSI(closes, config.rsiPeriod)
      macdData == calculateMACD(closes, config.macdFast, config.macdSlow,
                                config.macdSignal)
  IN  [j \in 1..Len(closes) |->
         [close |-> closes[j],
          rsi |-> ROrNull(rsiValues[j]),
          macd |-> ROrNull(macdData.macd[j]),
          macdSignal |-> ROrNull(macdData.signal[j]),
          macdHistogram |-> ROrNull(macdData.histogram[j])]]

\* ------------------------------------------- standalone bot series
\* Array(n).fill(null)
AllNull(n) == [j \in 1..n |-> RNull]

\* ema(values, period): seeded with the mean of the first period values
RECURSIVE EmaPrev(_, _, _)
EmaPrev(values, period, i) ==
  IF i = period - 1 THEN RDiv(RSum(Slice(values, 0, period)), R(period))
  ELSE LET k == Frac(2, period + 1)
       IN  RAdd(RMul(values[i + 1], k),
                RMul(EmaPrev(values, period, i - 1), RSub(R(1), k)))
ema(values, period) ==
  IF Len(values) < period THEN AllNull(Len(values))
  ELSE [j \in 1..Len(values) |->
          IF j - 1 < period - 1 THEN RNull ELSE EmaPrev(values, period, j - 1)]

\* macdSeries(closes, fast, slow, signal)
macdSeries(closes, fast, slow, signal) ==
  LET emaFast == ema(closes, fast)
      emaSlow == ema(closes, slow)
      macd == [j \in 1..Len(closes) |->
                 IF IsNum(emaFast[j]) /\ IsNum(emaSlow[j])
                   THEN RSub(emaFast[j], emaSlow[j]) ELSE RNull]
      macdForSignal == [j \in 1..Len(closes) |->
                          IF macd[j] = RNull THEN R(0) ELSE macd[j]]
      signalLine == ema(macdForSignal, signal)
      hist == [j \in 1..Len(closes) |->
                 IF macd[j] = RNull \/ ~IsNum(signalLine[j])
                   THEN RNull ELSE RSub(macd[j], signalLine[j])]
  IN  [macd |-> macd, signalLine |-> signalLine, hist |-> hist]

\* avgGain and avgLoss of rsiWilder at index i >= period
RECURSIVE WilderAvg(_, _, _)
WilderAvg(closes, period, i) ==
  IF i = period
    THEN [avgGain |-> RDiv(RSum(Slice(Gains(closes), 0, period)), R(period)),
          avgLoss |-> RDiv(RSum(Slice(Losses(closes), 0, period)), R(period))]
  ELSE LET prev == WilderAvg(closes, period, i - 1)
           g == Gains(closes)[i]
           l == Losses(closes)[i]
       IN  [avgGain |-> RDiv(RAdd(RMul(prev.avgGain, R(period - 1)), g), R(period)),
            avgLoss |-> RDiv(RAdd(RMul(prev.avgLoss, R(period - 1)), l), R(period))]

\* rsiWilder(closes, period)
rsiWilder(closes, period) ==
  IF Len(closes) <= period THEN AllNull(Len(closes))
  ELSE [j \in 1..Len(closes) |->
          LET i == j - 1
          IN  IF i < period THEN RNull
              ELSE LET a == WilderAvg(closes, period, i)
                   IN  IF i = period
                         THEN IF a.avgLoss = R(0) THEN R(100)
                              ELSE RsiOf(RDiv(a.avgGain, a.avgLoss))
                         ELSE RsiOf(IF a.avgLoss = R(0) THEN R(100)
                                    ELSE RDiv(a.avgGain, a.avgLoss))]

\* sma that starts one index late
sma_LateStart(values, period) ==
  IF Len(values) < period THEN AllNull(Len(values))
  ELSE [j \in 1..Len(values) |->
          LET i == j - 1
          IN  IF i >= period
                THEN RDiv(RSum(Slice(values, i - period + 1, i + 1)), R(period))
                ELSE RNull]

\* sma(values, period): the running sum of the last period values, each
\* "|| 0"
sma(values, period) ==
  IF Len(values) < period THEN AllNull(Len(values))
  ELSE LET v0 == [j \in 1..Len(values) |->
                    IF RFalsy(values[j]) THEN R(0) ELSE values[j]]
       IN  [j \in 1..Len(values) |->
              LET i == j - 1
              IN  IF i >= period - 1
                    THEN RDiv(RSum(Slice(v0, i - period + 1, i + 1)), R(period))
                    ELSE RNull]

\* calculateIndicators(df): the indicator columns of the rows.  The periods
\* are constants of the file (50, 200, 12, 26, 9, 14, 20), here fields of
\* periods.
calculateIndicators(closes, volumes, periods) ==
  LET ema50 == ema(closes, periods.ema50)
      ema200 == ema(closes, periods.ema200)
      macd == macdSeries(closes, periods.macdFast, periods.macdSlow, periods.macdSignal)
      rsiArr == rsiWilder(closes, periods.rsiPeriod)
      volSma == sma(volumes, periods.volumeMa)
      num(x) == IF IsNum(x) THEN x ELSE RNull
  IN  [j \in 1..Len(closes) |->
         [close |-> closes[j],
          ema50 |-> num(ema50[j]),
          ema200 |-> num(ema200[j]),
          macd |-> num(macd.macd[j]),
          macdSignal |-> num(macd.signalLine[j]),
          macdHist |-> num(macd.hist[j]),
          rsi |-> num(rsiArr[j]),
          volSma |-> num(volSma[j])]]

\* ------------------------------------------- the tick on the last snapshot
\* the data check of checkSignals on a row of processMarketData
InsufficientRow(row) == RFalsy(row.rsi) \/ RFalsy(row.macd) \/ RFalsy(row.macdSignal)

\* buyConditions / sellConditions of analyzeSignalRealTime on exact values
buyConditionsRow(row, config) ==
  << RLe(row.rsi, R(config.rsiLower + RsiZone)),
     RGt(row.macd, row.macdSignal) /\ RGt(row.macd, Frac(MacdBullFloor, 1000)) >>
sellConditionsRow(row, config) ==
  << RGe(row.rsi, R(config.rsiUpper - RsiZone)),
     RLt(row.macd, row.macdSignal) /\ RLt(row.macd, Frac(MacdBearCeil, 1000)) >>

\* checkSignals on the rows of processMarketData, with no startup protection
\* and no cooldown in force: the type of the signal it hands to
\* processSignal, "none" when it returns before.  With no row the service
\* turns to the demo data, which is outside this series.
tickOnRows(rows, config) ==
  IF Len(rows) = 0 THEN "none"
  ELSE LET latestData == rows[Len(rows)]
       IN  IF InsufficientRow(latestData) THEN "none"
           ELSE DecideRealTime(Score(buyConditionsRow(latestData, config)),
                               Score(sellConditionsRow(latestData, config)))

\* =========================================================== SpecSeries
\* The indicator pipeline on its own: Init draws a close series and the
\* periods, and one action runs each pipeline on it.
MaxLen == 4
MaxClose == 3
MaxPeriod == 3

SeriesOfLen(len) == [1..len -> {R(c) : c \in 1..MaxClose}]
CloseSeries == UNION {SeriesOfLen(len) : len \in 0..MaxLen}
\* periods with the fast EMA shorter than the slow one
SeriesConfigs ==
  {c \in [rsiPeriod : 1..MaxPeriod, macdFast : 1..MaxPeriod,
          macdSlow : 1..MaxPeriod, macdSignal : 1..MaxPeriod] :
     c.macdFast < c.macdSlow}

\* the periods of the standalone bot for a drawn configuration
StandalonePeriods(config) ==
  [ema50 |-> config.macdFast, ema200 |-> config.macdSlow,
   macdFast |-> config.macdFast, macdSlow |-> config.macdSlow,
   macdSignal |-> config.macdSignal, rsiPeriod |-> config.rsiPeriod,
   volumeMa |-> config.rsiPeriod]

InitSeries ==
  /\ now = 0
  /\ isRunning = FALSE
  /\ lastAlertTime = Null
  /\ startupProtectionTime = Null
  /\ intervalId = Null
  /\ currentConfig \in EvalConfigs
  /\ timers = << >>
  /\ starts = 0
  /\ ticks = << >>
  /\ signals = << >>
  /\ telegram = [token |-> Null, chatId |-> Null]
  /\ startedAt = Null
  /\ alertAtStop = Null
  /\ lastEval = NoEval
  /\ series \in [pc : {"input"}, closes : CloseSeries, config : SeriesConfigs]
  /\ configurations = NoConfigurations
  /\ ExtInit

\* MarketDataService.processMarketData on the series, and the tick of the
\* service on its rows
RunService ==
  /\ series.pc = "input"
  /\ LET closes == series.closes
         config == series.config
         rows == processMarketDataRows(closes, config)
     IN  series' = [pc |-> "service", closes |-> closes, config |-> config,
                    rsi |-> calculateRSI(closes, config.rsiPeriod),
                    sma |-> calculateSMA(closes, config.rsiPeriod),
                    emaFast |-> calculateEMA(closes, config.macdFast),
                    macd |-> calculateMACD(closes, config.macdFast,
                                           config.macdSlow, config.macdSignal),
                    rows |-> rows,
                    signal |-> tickOnRows(rows, currentConfig)]
  /\ UNCHANGED << now, isRunning, lastAlertTime, startupProtectionTime,
                  intervalId, currentConfig, timers, starts, ticks, signals,
                  telegram, startedAt, alertAtStop, lastEval,
                  configurations >>
  /\ UNCHANGED extVars

\* calculateIndicators of the standalone bot on the series
RunStandalone ==
  /\ series.pc = "input"
  /\ LET closes == series.closes
         config == series.config
         periods == StandalonePeriods(config)
     IN  series' = [pc |-> "standalone", closes |-> closes, config |-> config,
                    rsi |-> rsiWilder(closes, periods.rsiPeriod),
                    sma |-> sma(closes, periods.volumeMa),
                    emaFast |-> ema(closes, periods.macdFast),
                    macd |-> macdSeries(closes, periods.macdFast,
                                        periods.macdSlow, periods.macdSignal),
                    rows |-> calculateIndicators(closes, closes, periods)]
  /\ UNCHANGED << now, isRunning, lastAlertTime, startupProtectionTime,
                  intervalId, currentConfig, timers, starts, ticks, signals,
                  telegram, startedAt, alertAtStop, lastEval,
                  configurations >>
  /\ UNCHANGED extVars

NextSeries == RunService \/ RunStandalone

SpecSeries == InitSeries /\ [][NextSeries]_vars

\* ===================================================== claims on series
\* the series is shorter than max(macdSlow, rsiPeriod) + 1
ShortSeries ==
  LET slow == series.config.macdSlow
      period == series.config.rsiPeriod
  IN  Len(series.closes) < (IF slow > period THEN slow ELSE period) + 1

\* C11: for a series shorter than max(macdSlow, rsiPeriod) + 1 the last
\* snapshot of processMarketData has rsi, macd and macdSignal undefined, and
\* the tick that evaluates it emits no signal.
C11_ShortSeriesUndefined ==
  (series.pc = "service" /\ Len(series.closes) >= 1 /\ ShortSeries) =>
    LET last == series.rows[Len(series.rows)]
    IN  /\ last.rsi = RNull
        /\ last.macd = RNull
        /\ last.macdSignal = RNull
        /\ series.signal = "none"

\* C11, the signal alone: the tick on a short series emits no signal
C11_ShortSeriesNoSignal ==
  (series.pc = "service" /\ ShortSeries) => series.signal = "none"

\* one of the two pipelines has run on the series
Computed == series.pc \in {"service", "standalone"}

\* C12: every defined value of the RSI series (calculateRSI and rsiWilder)
\* lies in [0, 100].
C12_RsiInRange ==
  Computed =>
    \A j \in DOMAIN series.rsi :
      IsNum(series.rsi[j]) => RLe(R(0), series.rsi[j]) /\ RLe(series.rsi[j], R(100))

\* an RSI series of rsiWilder with a value strictly inside the interval and
\* a later value at its upper end
C12_Witness ==
  /\ series.pc = "standalone"
  /\ \E j \in DOMAIN series.rsi :
       /\ IsNum(series.rsi[j])
       /\ RLt(R(0), series.rsi[j]) /\ RLt(series.rsi[j], R(100))
  /\ \E j \in DOMAIN series.rsi : series.rsi[j] = R(100)

\* the same for calculateRSI, with a value at the lower end
C12_WitnessService ==
  /\ series.pc = "service"
  /\ \E j \in DOMAIN series.rsi : series.rsi[j] = R(0)
  /\ \E j \in DOMAIN series.rsi :
       /\ IsNum(series.rsi[j])
       /\ RLt(R(0), series.rsi[j]) /\ RLt(series.rsi[j], R(100))

\* average loss of rsiWilder at index i (0-based), for i >= period
AvgLossAt(i) == WilderAvg(series.closes, series.config.rsiPeriod, i).avgLoss

\* C13: rsiWilder returns exactly 100 at every index where the average loss
\* is 0, at the seed index and at every later index.
C13_RsiHundredOnZeroLoss ==
  series.pc = "standalone" =>
    \A j \in DOMAIN series.rsi :
      (j - 1 >= series.config.rsiPeriod /\ AvgLossAt(j - 1) = R(0)) =>
        series.rsi[j] = R(100)

\* C13 at the seed index alone
C13_SeedHundred ==
  series.pc = "standalone" =>
    \A j \in DOMAIN series.rsi :
      (j - 1 = series.config.rsiPeriod /\ AvgLossAt(j - 1) = R(0)) =>
        series.rsi[j] = R(100)

\* C14: the series of MarketDataService.calculateRSI equals the series of
\* rsiWilder (Wilder's smoothing) at every index where either is defined.
C14_ServiceRsiIsWilder ==
  series.pc = "service" =>
    LET wilder == rsiWilder(series.closes, series.config.rsiPeriod)
    IN  \A j \in DOMAIN series.closes :
          (IsNum(series.rsi[j]) \/ IsNum(wilder[j])) => series.rsi[j] = wilder[j]

\* C14 up to the seed index: the two series are defined at the same indices
\* and agree at the seed
C14_SameSeed ==
  series.pc = "service" =>
    LET wilder == rsiWilder(series.closes, series.config.rsiPeriod)
    IN  \A j \in DOMAIN series.closes :
          /\ IsNum(series.rsi[j]) <=> IsNum(wilder[j])
          /\ j - 1 = series.config.rsiPeriod => series.rsi[j] = wilder[j]

\* C14 on the series where the average loss of rsiWilder is never 0 after
\* the seed (where the formula of C13 does not enter)
C14_ServiceRsiIsWilderWithLoss ==
  series.pc = "service" =>
    LET wilder == rsiWilder(series.closes, series.config.rsiPeriod)
    IN  \A j \in DOMAIN series.closes :
          (IsNum(wilder[j]) /\ AvgLossAt(j - 1) # R(0)) => series.rsi[j] = wilder[j]

\* value v is undefined before 0-based index first and a number from it on
WarmUpAt(out, first) ==
  \A j \in DOMAIN out : IF j - 1 < first THEN out[j] = RNull ELSE IsNum(out[j])

\* C15: sma and ema of the standalone bot are undefined at every index
\* i < p - 1 and defined at every i >= p - 1, rsiWilder is undefined at every
\* i < p and defined at every i >= p, and each series has the length of the
\* input (all undefined when the input is shorter than the threshold).
C15_WarmUpWithoutGaps ==
  series.pc = "standalone" =>
    LET periods == StandalonePeriods(series.config)
        n == Len(series.closes)
    IN  /\ Len(series.sma) = n /\ WarmUpAt(series.sma, periods.volumeMa - 1)
        /\ Len(series.emaFast) = n /\ WarmUpAt(series.emaFast, periods.macdFast - 1)
        /\ Len(series.rsi) = n /\ WarmUpAt(series.rsi, periods.rsiPeriod)

\* a series with undefined and defined values in sma, ema and rsiWilder
C15_Witness ==
  /\ series.pc = "standalone"
  /\ Len(series.closes) = MaxLen
  /\ series.sma[1] = RNull /\ IsNum(series.sma[MaxLen])
  /\ series.emaFast[1] = RNull /\ IsNum(series.emaFast[MaxLen])
  /\ series.rsi[2] = RNull /\ IsNum(series.rsi[MaxLen])

\* an input shorter than every threshold: all undefined
C15_WitnessShort ==
  /\ series.pc = "standalone"
  /\ Len(series.closes) = 1
  /\ series.config.rsiPeriod > 1 /\ series.config.macdFast > 1
  /\ series.sma = << RNull >> /\ series.emaFast = << RNull >> /\ series.rsi = << RNull >>

\* the MACD line and the signal line the pipeline that ran has produced
MacdLine == series.macd.macd
SignalLine == IF series.pc = "service" THEN series.macd.signal ELSE series.macd.signalLine

\* the EMA of the defined MACD values alone, left-padded to the length of
\* the series
SignalOfDefined ==
  LET defined == SelectSeq(MacdLine, IsNum)
  IN  AllNull(Len(MacdLine) - Len(defined)) \o ema(defined, series.config.macdSignal)

\* C16: the signal line is undefined at every index below
\* (slow - 1) + (signal - 1), it is the EMA of the defined MACD values alone,
\* and where it is defined the MACD line is defined (macdSeries and
\* calculateMACD).
C16_SignalFromDefinedMacd ==
  Computed =>
    \A j \in DOMAIN SignalLine :
      /\ j - 1 < (series.config.macdSlow - 1) + (series.config.macdSignal - 1) =>
           ~IsNum(SignalLine[j])
      /\ IsNum(SignalLine[j]) => IsNum(MacdLine[j])
      /\ IsNum(SignalLine[j]) => SignalLine[j] = SignalOfDefined[j]

\* C16 for macdSeries alone: a defined signal value implies a defined MACD
C16_SignalImpliesMacd ==
  series.pc = "standalone" =>
    \A j \in DOMAIN SignalLine : IsNum(SignalLine[j]) => IsNum(MacdLine[j])

\* C16 for calculateMACD alone: the warm-up of the signal line
C16_ServiceSignalWarmUp ==
  series.pc = "service" =>
    \A j \in DOMAIN SignalLine :
      j - 1 < (series.config.macdSlow - 1) + (series.config.macdSignal - 1) =>
        ~IsNum(SignalLine[j])

\* the histogram column of a row of the pipeline that ran
HistOf(row) == IF series.pc = "service" THEN row.macdHistogram ELSE row.macdHist

\* C17: in every produced row where macd and macdSignal are defined,
\* macdHistogram is defined and equals macd - macdSignal
\* (processMarketData and calculateIndicators).
C17_HistogramIdentity ==
  Computed =>
    \A j \in DOMAIN series.rows :
      LET row == series.rows[j]
      IN  (IsNum(row.macd) /\ IsNum(row.macdSignal)) =>
            /\ IsNum(HistOf(row))
            /\ HistOf(row) = RSub(row.macd, row.macdSignal)

\* C17 for calculateIndicators of the standalone bot alone
C17_HistogramIdentityStandalone ==
  series.pc = "standalone" =>
    \A j \in DOMAIN series.rows :
      LET row == series.rows[j]
      IN  (IsNum(row.macd) /\ IsNum(row.macdSignal)) =>
            row.macdHist = RSub(row.macd, row.macdSignal)

\* C17 for processMarketData with a signal period of 2 or more
C17_HistogramIdentityLongSignal ==
  (series.pc = "service" /\ series.config.macdSignal >= 2) =>
    \A j \in DOMAIN series.rows :
      LET row == series.rows[j]
      IN  (IsNum(row.macd) /\ IsNum(row.macdSignal)) =>
            row.macdHistogram = RSub(row.macd, row.macdSignal)

\* every series the pipeline that ran has produced has length n
AllOfLength(n) ==
  /\ Len(series.rsi) = n
  /\ Len(series.sma) = n
  /\ Len(series.emaFast) = n
  /\ Len(MacdLine) = n
  /\ Len(SignalLine) = n
  /\ Len(IF series.pc = "service" THEN series.macd.histogram ELSE series.macd.hist) = n
  /\ Len(series.rows) = n

\* C18: for every input series of length n >= 0 every indicator series has
\* exactly length n.
C18_SeriesLength ==
  Computed => AllOfLength(Len(series.closes))

\* C18 for the series of one bar or more
C18_SeriesLengthNonEmpty ==
  (Computed /\ Len(series.closes) >= 1) => AllOfLength(Len(series.closes))

\* C18 for the standalone bot, the empty series included
C18_SeriesLengthStandalone ==
  series.pc = "standalone" => AllOfLength(Len(series.closes))

\* ============================================ configuration and signal routes
\* The routes of registerRoutes on MemStorage. A request body is a function
\* on the keys it carries; a key it omits is not in its domain. A stored
\* configuration keeps the columns the service and the claims read.
MaxConfigurations == 2
MaxApiSignals == 4

\* the configuration MemStorage is constructed with: no TELEGRAM_TOKEN and no
\* TELEGRAM_CHAT_ID in the environment
DefaultConfiguration ==
  [id |-> 1, rsiPeriod |-> 14, rsiLower |-> 20, rsiUpper |-> 80,
   alertCooldown |-> 5, isActive |-> TRUE,
   telegramToken |-> Null, telegramChatId |-> Null]

\* getActiveConfiguration() || null found nothing: the service's null
NoConfiguration ==
  [id |-> 0, rsiPeriod |-> 14, rsiLower |-> 20, rsiUpper |-> 80,
   alertCooldown |-> 5, isActive |-> FALSE,
   telegramToken |-> Null, telegramChatId |-> Null]

ConfigKeys == {"rsiPeriod", "rsiLower", "rsiUpper", "alertCooldown", "isActive"}

\* bodies with every key: numbers for the integer columns, or JSON null
FullBodies ==
  [rsiPeriod : {0}, rsiLower : {80}, rsiUpper : {20},
   alertCooldown : {0, Null}, isActive : BOOLEAN]

\* the request bodies: any subset of the keys
ConfigBodies ==
  { [k \in K |-> full[k]] : full \in FullBodies, K \in SUBSET ConfigKeys }

\* insertConfigurationSchema.parse: createInsertSchema of the table, every
\* column has a default and so is optional, an integer column takes a number
\* and not null; no bound and no relation between columns is declared
insertConfigurationSchema(body) ==
  \A k \in DOMAIN body \ {"isActive"} : body[k] # Null

\* updateConfigurationSchema = insertConfigurationSchema.partial()
updateConfigurationSchema(body) == insertConfigurationSchema(body)

\* MemStorage.getActiveConfiguration: the first row with isActive
getActiveConfiguration(rows) ==
  IF \E i \in DOMAIN rows : rows[i].isActive
    THEN rows[CHOOSE i \in DOMAIN rows :
                /\ rows[i].isActive
                /\ \A j \in DOMAIN rows : rows[j].isActive => i <= j]
    ELSE NoConfiguration

\* the values createConfiguration computes with || and ?? before the spread;
\* ...insertConfig then assigns every key the body carries, so they remain
\* only for the keys it omits
CreateDefaults ==
  [rsiPeriod |-> 14, rsiLower |-> 20, rsiUpper |-> 80, alertCooldown |-> 5,
   isActive |-> TRUE, telegramToken |-> Null, telegramChatId |-> Null]

\* MemStorage.createConfiguration
createConfiguration(rows, insertConfig) ==
  Append(rows, [id |-> Len(rows) + 1] @@ insertConfig @@ CreateDefaults)

\* MemStorage.updateConfiguration: {...config, ...updates}
updateConfiguration(rows, id, updates) ==
  IF id \in DOMAIN rows THEN [rows EXCEPT ![id] = updates @@ @] ELSE rows

\* the three demo rows of GET /api/signals: price and macd in units of
\* 0.00001, rsi in units of 0.1
DemoSignals ==
  << [type |-> "BUY", price |-> 11583, rsi |-> 352, macd |-> 12,
      macdSignal |-> 8, volume |-> 125000],
     [type |-> "SELL", price |-> 11601, rsi |-> 687, macd |-> -15,
      macdSignal |-> 2, volume |-> 98000],
     [type |-> "BUY", price |-> 11567, rsi |-> 289, macd |-> 18,
      macdSignal |-> 11, volume |-> 156000] >>

\* the loop of GET /api/signals over demoSignals
RECURSIVE createDemoSignals(_, _, _)
createDemoSignals(rows, i, t) ==
  IF i > Len(DemoSignals) THEN rows
  ELSE createDemoSignals(createSignal(rows, DemoSignals[i], t), i + 1, t)

\* computed values of the last bar that a tick of SpecApi may receive
ApiInputs ==
  { [rsi |-> NaN, macd |-> NaN, macdSignal |-> NaN, close |-> 1001, volume |-> 5],
    [rsi |-> 25, macd |-> 2, macdSignal |-> 1, close |-> 1001, volume |-> 5] }

\* the service is running on the default configuration, its startup
\* protection already cleared
InitApi ==
  /\ now = 0
  /\ isRunning = TRUE
  /\ lastAlertTime = Null
  /\ startupProtectionTime = Null
  /\ intervalId = 1
  /\ currentConfig = DefaultConfiguration
  /\ timers = << >>
  /\ starts = 0
  /\ ticks = << >>
  /\ signals = << >>
  /\ telegram = [token |-> Null, chatId |-> Null]
  /\ startedAt = 0
  /\ alertAtStop = Null
  /\ lastEval = NoEval
  /\ series = NoSeries
  /\ configurations = << DefaultConfiguration >>
  /\ ExtInit

\* POST /api/config
PostConfig(body) ==
  /\ Len(configurations) < MaxConfigurations
  /\ IF ~insertConfigurationSchema(body)
       THEN UNCHANGED configurations
       ELSE LET active == getActiveConfiguration(configurations)
                rows == IF "isActive" \in DOMAIN body /\ body.isActive
                           /\ active.id # 0
                          THEN updateConfiguration(configurations, active.id,
                                                   [isActive |-> FALSE])
                          ELSE configurations
            IN  configurations' = createConfiguration(rows, body)
  /\ lastEval' = NoEval
  /\ UNCHANGED << now, isRunning, lastAlertTime, startupProtectionTime,
                  intervalId, currentConfig, timers, starts, ticks, signals,
                  telegram, startedAt, alertAtStop, series >>
  /\ UNCHANGED extVars

\* PATCH /api/config/:id: storage.updateConfiguration, then
\* tradingBotService.updateConfiguration, which updates the row again and
\* reloads the configuration and the credentials of the service
PatchConfig(id, body) ==
  /\ IF ~updateConfigurationSchema(body) \/ id \notin DOMAIN configurations
       THEN UNCHANGED << configurations, currentConfig, telegram >>
       ELSE LET rows == updateConfiguration(
                          updateConfiguration(configurations, id, body),
                          id, body)
                config == getActiveConfiguration(rows)
            IN  /\ configurations' = rows
                /\ currentConfig' = config
                /\ telegram' = loadConfiguration(config, telegram)
  /\ lastEval' = NoEval
  /\ UNCHANGED << now, isRunning, lastAlertTime, startupProtectionTime,
                  intervalId, timers, starts, ticks, signals,
                  startedAt, alertAtStop, series >>
  /\ UNCHANGED extVars

\* GET /api/signals: with no stored signal it creates the demo rows
GetSignals ==
  /\ signals' = IF Len(signals) = 0 THEN createDemoSignals(signals, 1, now)
                ELSE signals
  /\ lastEval' = NoEval
  /\ UNCHANGED << now, isRunning, lastAlertTime, startupProtectionTime,
                  intervalId, currentConfig, timers, starts, ticks,
                  telegram, startedAt, alertAtStop, series, configurations >>
  /\ UNCHANGED extVars

\* one checkSignals execution with no other step between its awaits: the
\* configuration is loaded when the service has none, the data is evaluated
\* and processSignal stores the signal and, without credentials, sets
\* lastAlertTime
ApiTick(c) ==
  /\ isRunning
  /\ Len(signals) < MaxApiSignals
  /\ LET config == IF currentConfig.id = 0
                     THEN getActiveConfiguration(configurations)
                     ELSE currentConfig
     IN  /\ currentConfig' = config
         /\ IF config.id = 0
              THEN /\ lastEval' = NoEval
                   /\ UNCHANGED << isRunning, lastAlertTime,
                                   startupProtectionTime, signals >>
              ELSE LET r == checkSignals(processMarketData(c), config, This, now)
                   IN  /\ isRunning' = r.self.isRunning
                       /\ startupProtectionTime' = r.self.startupProtectionTime
                       /\ signals' = IF r.signal.type = "none" THEN signals
                                     ELSE createSignal(signals, r.signal, now)
                       /\ lastAlertTime' = IF r.signal.type = "none"
                                             THEN r.self.lastAlertTime ELSE now
                       /\ lastEval' = [fn |-> "realtime", at |-> now,
                                       startedAt |-> startedAt,
                                       before |-> This, after |-> r.self,
                                       computed |-> c,
                                       latest |-> processMarketData(c),
                                       previous |-> NoEval.previous,
                                       insufficient |-> r.insufficient,
                                       signal |-> r.signal]
  /\ UNCHANGED << now, intervalId, timers, starts, ticks, telegram,
                  startedAt, alertAtStop, series, configurations >>
  /\ UNCHANGED extVars

NextApi ==
  \/ \E body \in ConfigBodies : PostConfig(body)
  \/ \E id \in 1..MaxConfigurations, body \in ConfigBodies : PatchConfig(id, body)
  \/ GetSignals
  \/ \E c \in ApiInputs : ApiTick(c)

SpecApi == InitApi /\ [][NextApi]_vars

\* ============================================== claims on the API routes
\* the configuration is in order: rsiLower < rsiUpper, positive period and
\* cooldown
ValidConfiguration(config) ==
  /\ config.rsiLower < config.rsiUpper
  /\ config.rsiPeriod > 0
  /\ config.alertCooldown > 0

\* C19: a configuration with rsiLower >= rsiUpper or with a non-positive
\* period or cooldown is never stored and never is the configuration of the
\* service that an evaluation uses
C19_InvalidConfigRejected ==
  /\ \A i \in DOMAIN configurations : ValidConfiguration(configurations[i])
  /\ ValidConfiguration(currentConfig)

\* C19: no evaluation of the service runs on a configuration that is out of
\* order
C19_EvaluationOnValidConfig ==
  lastEval.fn = "realtime" => ValidConfiguration(currentConfig)

\* the step is a tick of the service whose evaluation returned a signal
QualifyingEvaluation ==
  /\ \E c \in ApiInputs : ApiTick(c)
  /\ lastEval'.fn = "realtime"
  /\ lastEval'.signal.type # "none"

\* C20: every stored signal was created by one evaluation that returned a
\* signal: a step that adds rows to the stored signals is such an evaluation
\* and adds exactly one row, so no read operation creates signals
C20_SignalsFromEvaluations ==
  [][Len(signals') > Len(signals)
       => QualifyingEvaluation /\ Len(signals') = Len(signals) + 1]_vars

\* C20: one qualifying evaluation creates exactly one stored signal, the
\* signal it returned
C20_OneSignalPerEvaluation ==
  [][QualifyingEvaluation
       => /\ Len(signals') = Len(signals) + 1
          /\ signals'[Len(signals')].type = lastEval'.signal.type
          /\ SubSeq(signals', 1, Len(signals)) = signals]_vars

\* the stored signals of a GET /api/signals on an empty storage
C20_DemoRows ==
  /\ Len(signals) = Len(DemoSignals)
  /\ lastAlertTime = Null
  /\ \A i \in DOMAIN signals : signals[i].price = DemoSignals[i].price

\* ====================================== standalone bot: the /analise limit
\* remaining = Infinity of a premium chat
Infinity == 999999

\* todayStr(): the UTC date of the clock, as a day number
todayStr(t) == t \div DayMs

\* isPremiumChat
isPremiumChat(chatId) == chatId \in PREMIUM_CHAT_IDS

\* Math.max(0, x)
Max0(x) == IF x > 0 THEN x ELSE 0

\* checkAndConsumeUsage that lets the call at the limit through
checkAndConsumeUsage_AtLimit(usage, chatId, t) ==
  IF isPremiumChat(chatId)
    THEN [usage |-> usage, allowed |-> TRUE, remaining |-> Infinity]
    ELSE LET today == todayStr(t)
             got == IF usage[chatId] = NoUsage
                      THEN [date |-> today, count |-> 0] ELSE usage[chatId]
             rec == IF got.date # today THEN [date |-> today, count |-> 0]
                    ELSE got
         IN  IF rec.count > FREE_DAILY_LIMIT
               THEN [usage |-> [usage EXCEPT ![chatId] = rec],
                     allowed |-> FALSE, remaining |-> 0]
               ELSE [usage |-> [usage EXCEPT ![chatId] =
                                  [rec EXCEPT !.count = rec.count + 1]],
                     allowed |-> TRUE,
                     remaining |-> Max0(FREE_DAILY_LIMIT - (rec.count + 1))]

\* checkAndConsumeUsage(chatId) on the map usage at time t: the new map and
\* the result
checkAndConsumeUsage(usage, chatId, t) ==
  IF isPremiumChat(chatId)
    THEN [usage |-> usage, allowed |-> TRUE, remaining |-> Infinity]
    ELSE LET today == todayStr(t)
             got == IF usage[chatId] = NoUsage
                      THEN [date |-> today, count |-> 0] ELSE usage[chatId]
             rec == IF got.date # today THEN [date |-> today, count |-> 0]
                    ELSE got
         IN  IF rec.count >= FREE_DAILY_LIMIT
               THEN [usage |-> [usage EXCEPT ![chatId] = rec],
                     allowed |-> FALSE, remaining |-> 0]
               ELSE [usage |-> [usage EXCEPT ![chatId] =
                                  [rec EXCEPT !.count = rec.count + 1]],
                     allowed |-> TRUE,
                     remaining |-> Max0(FREE_DAILY_LIMIT - (rec.count + 1))]

\* the variables the /analise handler leaves alone
notUsageVars ==
  << isRunning, lastAlertTime, startupProtectionTime, intervalId,
     currentConfig, timers, starts, ticks, signals, telegram, startedAt,
     alertAtStop, lastEval, series, configurations, botVars, barVars,
     tgVars >>

\* the standalone bot is up; the service is not part of it
InitUsage ==
  /\ now = 0
  /\ isRunning = FALSE
  /\ lastAlertTime = Null
  /\ startupProtectionTime = Null
  /\ intervalId = Null
  /\ currentConfig \in EvalConfigs
  /\ timers = << >>
  /\ starts = 0
  /\ ticks = << >>
  /\ signals = << >>
  /\ telegram = [token |-> Null, chatId |-> Null]
  /\ startedAt = Null
  /\ alertAtStop = Null
  /\ lastEval = NoEval
  /\ series = NoSeries
  /\ configurations = NoConfigurations
  /\ ExtInit

\* bot.onText(/analise): the usage check of the command of a chat
Analise(chatId) ==
  /\ LET r == checkAndConsumeUsage(usageByChat, chatId, now)
         d == todayStr(now)
     IN  /\ usageByChat' = r.usage
         /\ usageLog' =
              [grants |-> IF r.allowed /\ ~isPremiumChat(chatId)
                            THEN [usageLog.grants EXCEPT ![chatId][d] = @ + 1]
                            ELSE usageLog.grants,
               last |-> [chat |-> chatId, date |-> d, allowed |-> r.allowed,
                         remaining |-> r.remaining,
                         before |-> usageByChat[chatId]]]
  /\ UNCHANGED now
  /\ UNCHANGED notUsageVars

\* half a day passes
UsageAdvance ==
  /\ now < MaxUsageSteps * (DayMs \div 2)
  /\ now' = now + DayMs \div 2
  /\ usageLog' = [usageLog EXCEPT !.last = NoUsageCall]
  /\ UNCHANGED usageByChat
  /\ UNCHANGED notUsageVars

NextUsage ==
  \/ \E chatId \in Chats : Analise(chatId)
  \/ UsageAdvance

SpecUsage == InitUsage /\ [][NextUsage]_vars

\* ------------------------------------------------------------ claim C21
\* the grants made to the chat on the date before the last call
GrantsBefore(call) ==
  usageLog.grants[call.chat][call.date] - (IF call.allowed THEN 1 ELSE 0)

\* C21: a chat that is not premium is granted /analise at most
\* FREE_DAILY_LIMIT times on one date; a call after the limit was reached
\* that date returns allowed = false and remaining = 0; a call on a date
\* with no grant yet is allowed, whatever the earlier dates used
C21_DailyLimit ==
  /\ \A c \in Chats \ PREMIUM_CHAT_IDS : \A d \in UsageDates :
       usageLog.grants[c][d] <= FREE_DAILY_LIMIT
  /\ LET call == usageLog.last
     IN  call.chat \in Chats \ PREMIUM_CHAT_IDS =>
           /\ GrantsBefore(call) >= FREE_DAILY_LIMIT
                => ~call.allowed /\ call.remaining = 0
           /\ GrantsBefore(call) < FREE_DAILY_LIMIT
                => /\ call.allowed
                   /\ call.remaining = FREE_DAILY_LIMIT - GrantsBefore(call) - 1

\* a free chat that used its grant is refused on that date
C21_Witness ==
  /\ usageLog.last.chat = "free1"
  /\ ~usageLog.last.allowed
  /\ usageLog.grants["free1"][usageLog.last.date] = FREE_DAILY_LIMIT

\* a free chat that used its grant on an earlier date is granted again
C21_WitnessNextDate ==
  /\ usageLog.last.chat = "free1"
  /\ usageLog.last.allowed
  /\ usageLog.last.before.date # Null
  /\ usageLog.last.before.date < usageLog.last.date
  /\ usageLog.last.before.count = FREE_DAILY_LIMIT

\* ------------------------------------------------------------ claim C22
\* C22: ticks are single-flight: at most one checkSignals execution of the
\* service is in progress at any moment
C22_SingleFlight == Len(ticks) <= 1

\* C22: a timer that fires while a checkSignals execution is in progress
\* starts no further execution
C22_BusyTickSkipped ==
  [][Len(ticks) >= 1 => Len(ticks') <= Len(ticks)]_vars

\* two executions in progress, both waiting for their market data on the same
\* lastAlertTime and startup protection
C22_TwoInFlight ==
  /\ Len(ticks) = 2
  /\ \A n \in DOMAIN ticks : ticks[n].pc = "fetch"

\* ------------------------------------------------------------ claim C23
\* an evaluation of analyzeSignalRealTime that reached the scoring
Scored ==
  /\ lastEval.fn = "realtime"
  /\ ~lastEval.insufficient
  /\ lastEval.before.startupProtectionTime = Null
  /\ lastEval.before.lastAlertTime = Null

\* C23: in the scoring of analyzeSignalRealTime the RSI condition for BUY
\* holds exactly when rsiLower <= rsi <= rsiLower + 10 and the RSI condition
\* for SELL exactly when rsiUpper - 10 <= rsi <= rsiUpper
C23_RsiZones ==
  Scored =>
    LET rsi == lastEval.latest.rsi
    IN  /\ buyConditions(lastEval.latest, currentConfig)[1]
             <=> (currentConfig.rsiLower <= rsi
                  /\ rsi <= currentConfig.rsiLower + RsiZone)
        /\ sellConditions(lastEval.latest, currentConfig)[1]
             <=> (currentConfig.rsiUpper - RsiZone <= rsi
                  /\ rsi <= currentConfig.rsiUpper)

\* C23: an RSI outside both zones contributes to neither score: with no MACD
\* condition met the evaluation returns no signal
C23_OutsideZonesNoSignal ==
  (/\ Scored
   /\ lastEval.latest.macd = lastEval.latest.macdSignal
   /\ \/ lastEval.latest.rsi < currentConfig.rsiLower
      \/ lastEval.latest.rsi > currentConfig.rsiUpper)
    => lastEval.signal.type = "none"

\* C23: inside the zones the conditions are as stated: the upper end of the
\* BUY zone and the lower end of the SELL zone are the tests of the code
C23_ZoneInnerEnds ==
  Scored =>
    LET rsi == lastEval.latest.rsi
    IN  /\ rsi >= currentConfig.rsiLower
             => (buyConditions(lastEval.latest, currentConfig)[1]
                   <=> rsi <= currentConfig.rsiLower + RsiZone)
        /\ rsi <= currentConfig.rsiUpper
             => (sellConditions(lastEval.latest, currentConfig)[1]
                   <=> rsi >= currentConfig.rsiUpper - RsiZone)

\* ================================= standalone bot: autoLoop and /signal
SIGNAL_COOLDOWN_MS == 5 * 60 * 1000
LoopIntervalMs == 60 * 1000
MaxBotSteps == 6
MaxAlerts == 3

\* the last two rows of calculateIndicators(df) that a run may see: rows that
\* give COMPRA, VENDA and NEUTRO, and a row still in warm-up; NoData is a
\* failed getOHLCV
BotRows ==
  { [ok |-> TRUE,
     last |-> [rsi |-> 25, macd |-> 1, macdSignal |-> 0, ema50 |-> 3,
               ema200 |-> 2, volume |-> 10, volSma |-> 10],
     prev |-> [macd |-> -1, macdSignal |-> 0]],
    [ok |-> TRUE,
     last |-> [rsi |-> 75, macd |-> -1, macdSignal |-> 0, ema50 |-> 1,
               ema200 |-> 2, volume |-> 10, volSma |-> 10],
     prev |-> [macd |-> 1, macdSignal |-> 0]],
    [ok |-> TRUE,
     last |-> [rsi |-> 50, macd |-> 1, macdSignal |-> 0, ema50 |-> Null,
               ema200 |-> 2, volume |-> 10, volSma |-> 10],
     prev |-> [macd |-> 1, macdSignal |-> 0]],
    [ok |-> TRUE,
     last |-> [rsi |-> Null, macd |-> 1, macdSignal |-> 0, ema50 |-> Null,
               ema200 |-> 2, volume |-> 10, volSma |-> Null],
     prev |-> [macd |-> Null, macdSignal |-> 0]],
    [ok |-> FALSE,
     last |-> [rsi |-> Null, macd |-> Null, macdSignal |-> Null, ema50 |-> Null,
               ema200 |-> Null, volume |-> 0, volSma |-> Null],
     prev |-> [macd |-> Null, macdSignal |-> Null]] }

\* checkSignal(df) of the revision with the cooldown, on the last two rows of
\* df, the map lastSignalTime and the clock: the side it returns ("null" for
\* a null result) and the map it leaves. The cooldown entry read and written
\* is that of SYMBOL, whatever pair df belongs to. lastSignalTime.get() || 0
\* of a pair with no entry is a time far in the past of any clock.
checkSignal(last, prev, lst, t) ==
  IF last.rsi = Null \/ last.macd = Null \/ last.macdSignal = Null
       \/ last.volSma = Null
    THEN [side |-> "null", lastSignalTime |-> lst]
  ELSE IF lst[SYMBOL] # Null /\ t - lst[SYMBOL] < SIGNAL_COOLDOWN_MS
    THEN [side |-> "null", lastSignalTime |-> lst]
  ELSE IF confirmationsBuy(last, prev) >= minConfirms /\ volumeOk(last)
    THEN [side |-> "COMPRA", lastSignalTime |-> [lst EXCEPT ![SYMBOL] = t]]
  ELSE IF confirmationsSell(last, prev) >= minConfirms /\ volumeOk(last)
    THEN [side |-> "VENDA", lastSignalTime |-> [lst EXCEPT ![SYMBOL] = t]]
  ELSE [side |-> "NEUTRO", lastSignalTime |-> lst]

\* the alerts after autoLoop handled the side of its signalObj
sendAlert(alerts, side, t) ==
  IF side \in {"COMPRA", "VENDA"}
    THEN Append(alerts, [pair |-> SYMBOL, side |-> side, at |-> t])
    ELSE alerts

\* the variables the standalone bot leaves alone
notBotVars ==
  << isRunning, lastAlertTime, startupProtectionTime, intervalId,
     currentConfig, starts, ticks, signals, telegram, startedAt,
     alertAtStop, lastEval, series, configurations, usageVars, barVars,
     tgVars >>

\* the bot as the script leaves it: the first autoLoop is due at once, the
\* interval timer repeats it
InitBot ==
  /\ now = 0
  /\ isRunning = FALSE
  /\ lastAlertTime = Null
  /\ startupProtectionTime = Null
  /\ intervalId = Null
  /\ currentConfig \in EvalConfigs
  /\ timers = << 0 >>
  /\ starts = 0
  /\ ticks = << >>
  /\ signals = << >>
  /\ telegram = [token |-> Null, chatId |-> Null]
  /\ startedAt = Null
  /\ alertAtStop = Null
  /\ lastEval = NoEval
  /\ series = NoSeries
  /\ configurations = NoConfigurations
  /\ ExtInit

\* autoLoop of bot-signals.js: analyzeIndicators on the rows, and the alert
AutoLoopIndicators(data) ==
  /\ timers[1] <= now
  /\ Len(botLog.alerts) < MaxAlerts
  /\ timers' = [timers EXCEPT ![1] = @ + LoopIntervalMs]
  /\ LET side == IF data.ok THEN analyzeIndicators(data.last, data.prev)
                 ELSE "null"
     IN  botLog' = [alerts |-> sendAlert(botLog.alerts, side, now),
                    last |-> [by |-> "autoLoop", symbol |-> SYMBOL,
                              side |-> side, at |-> now,
                              before |-> lastSignalTime[SYMBOL]]]
  /\ UNCHANGED << now, lastSignalTime >>
  /\ UNCHANGED notBotVars

\* autoLoop of the revision with checkSignal
AutoLoopCheckSignal(data) ==
  /\ timers[1] <= now
  /\ Len(botLog.alerts) < MaxAlerts
  /\ timers' = [timers EXCEPT ![1] = @ + LoopIntervalMs]
  /\ LET r == IF data.ok
                THEN checkSignal(data.last, data.prev, lastSignalTime, now)
                ELSE [side |-> "null", lastSignalTime |-> lastSignalTime]
     IN  /\ lastSignalTime' = r.lastSignalTime
         /\ botLog' = [alerts |-> sendAlert(botLog.alerts, r.side, now),
                       last |-> [by |-> "autoLoop", symbol |-> SYMBOL,
                                 side |-> r.side, at |-> now,
                                 before |-> lastSignalTime[SYMBOL]]]
  /\ UNCHANGED now
  /\ UNCHANGED notBotVars

\* bot.onText(/signal) of the revision with checkSignal: the analysis of the
\* pair the chat names, answered to the chat
SignalCommand(symbol, data) ==
  /\ data.ok
  /\ LET r == checkSignal(data.last, data.prev, lastSignalTime, now)
     IN  /\ lastSignalTime' = r.lastSignalTime
         /\ botLog' = [botLog EXCEPT !.last =
                         [by |-> "signal", symbol |-> symbol, side |-> r.side,
                          at |-> now, before |-> lastSignalTime[SYMBOL]]]
  /\ UNCHANGED << now, timers >>
  /\ UNCHANGED notBotVars

\* a minute passes once the loop that was due has run
BotAdvance ==
  /\ now < MaxBotSteps * LoopIntervalMs
  /\ timers[1] > now
  /\ now' = now + LoopIntervalMs
  /\ botLog' = [botLog EXCEPT !.last = NoBotRun]
  /\ UNCHANGED << timers, lastSignalTime >>
  /\ UNCHANGED notBotVars

NextAutoLoop ==
  \/ \E data \in BotRows : AutoLoopIndicators(data)
  \/ BotAdvance

SpecAutoLoop == InitBot /\ [][NextAutoLoop]_vars

NextCheckSignal ==
  \/ \E data \in BotRows : AutoLoopCheckSignal(data)
  \/ \E symbol \in Pairs, data \in BotRows : SignalCommand(symbol, data)
  \/ BotAdvance

SpecCheckSignal == InitBot /\ [][NextCheckSignal]_vars

\* ------------------------------------------------------ claims C24, C25
\* C24: the automatic loop never sends two COMPRA / VENDA alerts for the same
\* pair less than SIGNAL_COOLDOWN_MS apart
C24_AlertsCooldownApart ==
  \A i, j \in DOMAIN botLog.alerts :
    (i < j /\ botLog.alerts[i].pair = botLog.alerts[j].pair)
      => botLog.alerts[j].at - botLog.alerts[i].at >= SIGNAL_COOLDOWN_MS

\* two alerts of the automatic loop one minute apart
C24_TwoAlertsInAMinute ==
  /\ Len(botLog.alerts) >= 2
  /\ botLog.alerts[2].at - botLog.alerts[1].at = LoopIntervalMs

\* C25: a /signal command for a pair other than SYMBOL does not change
\* lastSignalTime of SYMBOL
C25_ManualKeepsCooldown ==
  [][(botLog'.last.by = "signal" /\ botLog'.last.symbol # SYMBOL)
       => lastSignalTime'[SYMBOL] = lastSignalTime[SYMBOL]]_vars

\* C25: a /signal command for a pair other than SYMBOL does not depend on
\* lastSignalTime of SYMBOL: it is not refused because SYMBOL is in cooldown
C25_ManualNotSuppressed ==
  (/\ botLog.last.by = "signal"
   /\ botLog.last.symbol # SYMBOL
   /\ botLog.last.before # Null
   /\ botLog.last.at - botLog.last.before < SIGNAL_COOLDOWN_MS)
    => botLog.last.side # "null"

\* C25: a run of the automatic loop is refused by the cooldown only after an
\* alert of the loop itself
C25_LoopNotDelayed ==
  (/\ botLog.last.by = "autoLoop"
   /\ botLog.last.before # Null
   /\ botLog.last.at - botLog.last.before < SIGNAL_COOLDOWN_MS)
    => \E i \in DOMAIN botLog.alerts : botLog.alerts[i].at = botLog.last.before

\* ===================== the crossover revision: the tick and the stored bars
\* One checkSignals execution of the crossover revision with the bars it
\* stores and reads back. A fetched series has SeriesLen bars (the code asks
\* for 100).
SeriesLen == 2
MaxStoredBars == 6
MaxBarSteps == 5
CrossoverIntervalMs == 60000
PeriodMs == 5 * 60 * 1000

\* currentConfig.symbol / timeframe of the stored default configuration, and
\* the symbol getLatestData is called with (symbol.replace('/', '-'))
ConfigSymbol == "XLM/USDT"
Timeframe == "5m"
exchangeSymbol == "XLM-USDT"

\* the indicator values along a fetched series, after || null: a series whose
\* last two bars cross upward, one that does not cross, one still in warm-up
BarShapes ==
  { [last |-> [rsi |-> 45, macd |-> 1, macdSignal |-> -3, close |-> 1001, volume |-> 5],
     prev |-> [rsi |-> 45, macd |-> -2, macdSignal |-> -1, close |-> 1001, volume |-> 5]],
    [last |-> [rsi |-> 45, macd |-> 1, macdSignal |-> -3, close |-> 1001, volume |-> 5],
     prev |-> [rsi |-> 45, macd |-> 1, macdSignal |-> -3, close |-> 1001, volume |-> 5]],
    [last |-> [rsi |-> Null, macd |-> Null, macdSignal |-> Null, close |-> 1001, volume |-> 5],
     prev |-> [rsi |-> Null, macd |-> Null, macdSignal |-> Null, close |-> 1001, volume |-> 5]] }

\* one bar of a series
Bar(symbol, timestamp, ind) ==
  [symbol |-> symbol, timeframe |-> Timeframe, timestamp |-> timestamp,
   rsi |-> ind.rsi, macd |-> ind.macd, macdSignal |-> ind.macdSignal,
   close |-> ind.close, volume |-> ind.volume]

\* MarketDataService.processMarketData: the bars of the exchange, one per
\* period, the last one the period the clock is in
processMarketDataBars(symbol, t, shape) ==
  [i \in 1..SeriesLen |->
     Bar(symbol, PeriodMs * ((t \div PeriodMs) - (SeriesLen - i)),
         IF i = SeriesLen THEN shape.last ELSE shape.prev)]

\* DemoMarketDataService.processMarketData: bars counted back from the clock
demoMarketDataBars(symbol, t, shape) ==
  [i \in 1..SeriesLen |->
     Bar(symbol, t - (SeriesLen - i) * PeriodMs,
         IF i = SeriesLen THEN shape.last ELSE shape.prev)]

\* MemStorage.insertMarketData: every item is stored under a new id
insertMarketData(rows, data) == rows \o data

\* Array.prototype.sort by timestamp descending; the sort is stable
RECURSIVE sortByTimestampDesc(_)
sortByTimestampDesc(rows) ==
  IF Len(rows) = 0 THEN << >>
  ELSE LET k == CHOOSE i \in DOMAIN rows :
                  /\ \A j \in DOMAIN rows : rows[j].timestamp <= rows[i].timestamp
                  /\ \A j \in DOMAIN rows :
                       rows[j].timestamp = rows[i].timestamp => i <= j
       IN  << rows[k] >> \o sortByTimestampDesc(Without(rows, k))

\* MemStorage.getLatestMarketData(symbol, timeframe, limit)
getLatestMarketData(rows, symbol, timeframe, limit) ==
  LET found == SelectSeq(rows, LAMBDA d : d.symbol = symbol
                                          /\ d.timeframe = timeframe)
      sorted == sortByTimestampDesc(found)
  IN  SubSeq(sorted, 1, IF Len(sorted) < limit THEN Len(sorted) ELSE limit)

\* the indicator fields of a stored bar
Indicators(row) ==
  [rsi |-> row.rsi, macd |-> row.macd, macdSignal |-> row.macdSignal,
   close |-> row.close, volume |-> row.volume]

\* the variables the tick of the crossover revision leaves alone
notBarVars ==
  << intervalId, currentConfig, timers, starts, ticks, telegram, startedAt,
     alertAtStop, series, configurations, usageVars, botVars, tgVars >>

\* the service is running on the default configuration, no bar stored
InitBars ==
  /\ now = PeriodMs
  /\ isRunning = TRUE
  /\ lastAlertTime = Null
  /\ startupProtectionTime = Null
  /\ intervalId = 1
  /\ currentConfig \in EvalConfigs
  /\ timers = << >>
  /\ starts = 0
  /\ ticks = << >>
  /\ signals = << >>
  /\ telegram = [token |-> Null, chatId |-> Null]
  /\ startedAt = PeriodMs
  /\ alertAtStop = Null
  /\ lastEval = NoEval
  /\ series = NoSeries
  /\ configurations = NoConfigurations
  /\ ExtInit

\* checkSignals of the crossover revision, once per firing of the timer and
\* with no other step between its awaits: getLatestData on the exchange or, when that throws, on the demo
\* service, both storing their series; the two latest stored bars of the
\* configured symbol; analyzeSignal; processSignal without credentials
BarTick(realOk, shape) ==
  /\ isRunning
  /\ barLog = NoBarTick
  /\ Len(marketData) + SeriesLen <= MaxStoredBars
  /\ LET data == IF realOk
                   THEN processMarketDataBars(exchangeSymbol, now, shape)
                   ELSE demoMarketDataBars(ConfigSymbol, now, shape)
         stored == insertMarketData(marketData, data)
         latestData == data[Len(data)]
         insufficient == Falsy(latestData.rsi) \/ Falsy(latestData.macd)
                         \/ Falsy(latestData.macdSignal)
         recentData == IF insufficient THEN << >>
                       ELSE getLatestMarketData(stored, ConfigSymbol, Timeframe, 2)
         called == ~insufficient /\ Len(recentData) >= 2
     IN  /\ marketData' = stored
         /\ barLog' = [source |-> IF realOk THEN "exchange" ELSE "demo",
                       fetched |-> data, recent |-> recentData,
                       called |-> called]
         /\ IF ~called
              THEN /\ lastEval' = NoEval
                   /\ UNCHANGED << isRunning, lastAlertTime,
                                   startupProtectionTime, signals >>
              ELSE LET current == Indicators(recentData[1])
                       previous == Indicators(recentData[2])
                       r == analyzeSignal(current, previous, currentConfig,
                                          This, now)
                   IN  /\ isRunning' = r.self.isRunning
                       /\ startupProtectionTime' = r.self.startupProtectionTime
                       /\ signals' = IF r.signal.type = "none" THEN signals
                                     ELSE createSignal(signals, r.signal, now)
                       /\ lastAlertTime' = IF r.signal.type = "none"
                                             THEN r.self.lastAlertTime ELSE now
                       /\ lastEval' = [fn |-> "crossover", at |-> now,
                                       startedAt |-> startedAt,
                                       before |-> This, after |-> r.self,
                                       computed |-> current,
                                       latest |-> current @@ [macdHistogram |-> Null],
                                       previous |-> [macd |-> previous.macd,
                                                     macdSignal |-> previous.macdSignal],
                                       insufficient |-> FALSE,
                                       signal |-> r.signal]
  /\ UNCHANGED now
  /\ UNCHANGED notBarVars

\* the interval of the timer passes
BarAdvance ==
  /\ now < PeriodMs + MaxBarSteps * CrossoverIntervalMs
  /\ now' = now + CrossoverIntervalMs
  /\ lastEval' = NoEval
  /\ barLog' = NoBarTick
  /\ UNCHANGED << isRunning, lastAlertTime, startupProtectionTime, signals,
                  marketData >>
  /\ UNCHANGED notBarVars

NextBars ==
  \/ \E realOk \in BOOLEAN, shape \in BarShapes : BarTick(realOk, shape)
  \/ BarAdvance

SpecBars == InitBars /\ [][NextBars]_vars

\* ------------------------------------------------------ claims C26, C30
\* C26: the stored bars hold at most one bar per (symbol, timeframe,
\* timestamp)
C26_UniqueBars ==
  \A i, j \in DOMAIN marketData :
    (/\ marketData[i].symbol = marketData[j].symbol
     /\ marketData[i].timeframe = marketData[j].timeframe
     /\ marketData[i].timestamp = marketData[j].timestamp) => i = j

\* two ticks in one period stored the bar of that period twice
C26_SameBarTwice ==
  /\ Len(marketData) = 2 * SeriesLen
  /\ marketData[SeriesLen] = marketData[2 * SeriesLen]
  /\ marketData[SeriesLen].symbol = exchangeSymbol

\* C30: whenever analyzeSignal is called, current and previous are the last
\* bar and the bar before it of the series fetched and stored in this tick:
\* the same symbol and series, one period apart
C30_ArgumentsFromThisTick ==
  barLog.called =>
    /\ barLog.recent[1] = barLog.fetched[Len(barLog.fetched)]
    /\ barLog.recent[2] = barLog.fetched[Len(barLog.fetched) - 1]
    /\ barLog.recent[1].symbol = barLog.recent[2].symbol
    /\ barLog.recent[1].timestamp = barLog.recent[2].timestamp + PeriodMs

\* C30: whenever analyzeSignal is called, current is strictly later than
\* previous by one period
C30_OnePeriodApart ==
  barLog.called =>
    barLog.recent[1].timestamp = barLog.recent[2].timestamp + PeriodMs

\* analyzeSignal called on bars of an earlier tick while the series of this
\* tick is stored under the symbol of the exchange
C30_StaleArguments ==
  /\ barLog.called
  /\ barLog.source = "exchange"
  /\ barLog.recent[1].symbol # barLog.fetched[1].symbol

\* ============================================= POST /api/telegram/test
\* The test route next to the ticks of the running service. The credentials
\* of the service are in the environment or only in the configuration row;
\* currentConfig carries them as the service reads them
\* (process.env.X || currentConfig.X).
TestBodies == { [token |-> 2, chatId |-> 8], [token |-> Null, chatId |-> 8] }

\* the variables the test route leaves alone
notTgVars ==
  << now, isRunning, lastAlertTime, startupProtectionTime, intervalId,
     currentConfig, timers, starts, ticks, signals, startedAt, alertAtStop,
     series, configurations, usageVars, botVars, barVars, processEnv >>

\* the service is running with credentials, its startup protection cleared
\* and its timer due
InitTelegram ==
  /\ now = 0
  /\ isRunning = TRUE
  /\ lastAlertTime = Null
  /\ startupProtectionTime = Null
  /\ intervalId = 1
  /\ currentConfig \in {c \in Configs : HasCredentials(c)}
  /\ timers = << 0 >>
  /\ starts = 0
  /\ ticks = << >>
  /\ signals = << >>
  /\ telegram = loadConfiguration(currentConfig, [token |-> Null, chatId |-> Null])
  /\ startedAt = 0
  /\ alertAtStop = Null
  /\ lastEval = NoEval
  /\ series = NoSeries
  /\ configurations = NoConfigurations
  /\ UsageInit /\ BotInit /\ BarInit
  /\ processEnv \in { NoEnv,
                      [TELEGRAM_TOKEN |-> currentConfig.telegramToken,
                       TELEGRAM_CHAT_ID |-> currentConfig.telegramChatId] }
  /\ telegramTest = NoTest

\* updateCredentials(originalToken || '', originalChatId || '')
restoreCredentials(env) ==
  [token |-> OrNull(env.TELEGRAM_TOKEN), chatId |-> OrNull(env.TELEGRAM_CHAT_ID)]

\* the route up to the await of testConnection: 400 without token or chatId,
\* otherwise the credentials of the body replace those of the service;
\* testConnection returns false at once without a token
TelegramTestCall(body) ==
  /\ telegramTest.pc \in {"idle", "done"}
  /\ IF Falsy(body.token) \/ Falsy(body.chatId)
       THEN UNCHANGED << telegram, telegramTest >>
       ELSE /\ telegram' = [token |-> body.token, chatId |-> body.chatId]
            /\ telegramTest' = [pc |-> "testConn", before |-> telegram]
  /\ lastEval' = NoEval
  /\ UNCHANGED notTgVars

\* testConnection resolved: when connected the route awaits sendMessage,
\* otherwise it restores the credentials and answers
TelegramTestConnDone(isConnected) ==
  /\ telegramTest.pc = "testConn"
  /\ IF isConnected
       THEN /\ telegramTest' = [telegramTest EXCEPT !.pc = "send"]
            /\ UNCHANGED telegram
       ELSE /\ telegramTest' = [telegramTest EXCEPT !.pc = "done"]
            /\ telegram' = restoreCredentials(processEnv)
  /\ lastEval' = NoEval
  /\ UNCHANGED notTgVars

\* sendMessage resolved: the route restores the credentials and answers
TelegramTestSendDone ==
  /\ telegramTest.pc = "send"
  /\ telegramTest' = [telegramTest EXCEPT !.pc = "done"]
  /\ telegram' = restoreCredentials(processEnv)
  /\ lastEval' = NoEval
  /\ UNCHANGED notTgVars

NextTelegram ==
  \/ \E i \in TimerIds : TimerFire(i)
  \/ \E n \in Flights, c \in MainInputs : FetchDone(n, c)
  \/ \E n \in Flights : CreateDone(n)
  \/ \E n \in Flights, isConnected \in BOOLEAN : TestConnDone(n, isConnected)
  \/ \E n \in Flights, ok \in BOOLEAN : SendDone(n, ok)
  \/ \E n \in Flights : UpdateDone(n)
  \/ \E body \in TestBodies : TelegramTestCall(body)
  \/ \E isConnected \in BOOLEAN : TelegramTestConnDone(isConnected)
  \/ TelegramTestSendDone

SpecTelegram == InitTelegram /\ [][NextTelegram]_vars

\* ------------------------------------------------------------ claim C27
\* C27: when the test request completes, the token and chatId of
\* telegramService are those they were before the request
C27_CredentialsRestored ==
  [][(telegramTest.pc # "done" /\ telegramTest'.pc = "done")
       => telegram' = telegramTest'.before]_vars

\* C27: no signal alert of a tick is sent with the credentials of a test:
\* when a tick goes on to sendSignalAlert the service holds the credentials
\* processSignal gave it
C27_AlertOnOwnCredentials ==
  [][(\E n \in Flights : TestConnDone(n, TRUE))
       => telegram = [token |-> currentConfig.telegramToken,
                      chatId |-> currentConfig.telegramChatId]]_vars

\* the test has completed and the service is left without the credentials it
\* had loaded from the configuration row
C27_CredentialsLost ==
  /\ telegramTest.pc = "done"
  /\ processEnv = NoEnv
  /\ telegramTest.before.token = currentConfig.telegramToken
  /\ telegram.token = Null

\* C27: with the credentials in the environment, the completed test leaves
\* the credentials as they were
C27_RestoredFromEnv ==
  [][(/\ telegramTest.pc # "done" /\ telegramTest'.pc = "done"
      /\ processEnv # NoEnv)
       => telegram' = telegramTest'.before]_vars

\* ========================================================= SpecLifecycle
\* start() and stop() of the real-time service with every interleaving its
\* await allows: a call of start() that has tested isRunning waits for
\* loadConfiguration, and other calls of start() and stop() run meanwhile.
\* The ticks of the timers end at their first await with no data.
MaxPendingStarts == 2
MaxLifecycleTimers == 2

LifecycleTimerIds == 1..MaxLifecycleTimers

\* start() up to its await: returns at once when the bot is running
StartEnter ==
  /\ ~isRunning
  /\ starts < MaxPendingStarts
  /\ Cardinality(DOMAIN timers) + starts < MaxLifecycleTimers
  /\ starts' = starts + 1
  /\ lastEval' = NoEval
  /\ UNCHANGED << now, isRunning, lastAlertTime, startupProtectionTime,
                  intervalId, currentConfig, timers, ticks, signals,
                  telegram, startedAt, alertAtStop >>
  /\ UNCHANGED pipelineVars

\* start() after loadConfiguration resolved: isRunning is not tested again,
\* and setInterval overwrites intervalId
StartResume ==
  /\ starts > 0
  /\ starts' = starts - 1
  /\ telegram' = loadConfiguration(currentConfig, telegram)
  /\ LET self == startFields(This, now)
     IN  /\ isRunning' = self.isRunning
         /\ lastAlertTime' = self.lastAlertTime
         /\ startupProtectionTime' = self.startupProtectionTime
  /\ startedAt' = now
  /\ LET id == CHOOSE i \in LifecycleTimerIds \ DOMAIN timers :
                 \A j \in LifecycleTimerIds \ DOMAIN timers : i <= j
     IN  /\ timers' = [i \in DOMAIN timers \cup {id} |->
                         IF i = id THEN now + CheckIntervalMs ELSE timers[i]]
         /\ intervalId' = id
  /\ lastEval' = NoEval
  /\ UNCHANGED << now, currentConfig, ticks, signals, alertAtStop >>
  /\ UNCHANGED pipelineVars

NextLifecycle ==
  \/ StartEnter
  \/ StartResume
  \/ Stop
  \/ Advance
  \/ \E i \in LifecycleTimerIds : TimerFire(i)
  \/ \E n \in Flights : FetchFail(n)

SpecLifecycle == Init /\ [][NextLifecycle]_vars

\* C28: at most one monitoring interval timer exists at any time
C28_OneTimer == Cardinality(DOMAIN timers) <= 1

\* C28: once stop() has returned, with no start() called since, no timer
\* remains that will invoke checkSignals
C28_NoTimerAfterStop ==
  (~isRunning /\ starts = 0) => DOMAIN timers = {}

\* C28: checkSignals is invoked by a timer only while the bot is running
C28_TicksOnlyWhileRunning ==
  [][(\E i \in LifecycleTimerIds : TimerFire(i)) => isRunning]_vars

\* C28: two calls of start() have both passed the test of isRunning
C28_TwoStartsPending == starts = 2

\* ------------------------------------------------ the active configuration
\* the stored configurations with isActive = true
ActiveRows(rows) == { i \in DOMAIN rows : rows[i].isActive }

\* C29: after any sequence of POST /api/config and PATCH /api/config/:id, at
\* most one stored configuration has isActive = true
C29_OneActive == Cardinality(ActiveRows(configurations)) <= 1

\* C29: a PATCH on rows with at most one active configuration leaves at most
\* one active
C29_PatchKeepsOneActive ==
  [][(/\ Cardinality(ActiveRows(configurations)) <= 1
      /\ \E id \in 1..MaxConfigurations, body \in ConfigBodies :
           PatchConfig(id, body))
       => Cardinality(ActiveRows(configurations')) <= 1]_vars

\* C29: a second configuration is stored, and the first one with isActive is
\* still the default row
C29_SecondRowStored ==
  /\ Len(configurations) = 2
  /\ getActiveConfiguration(configurations).id = 1

====
